---- MODULE Spec2Model ----
(***************************************************************************)
(* Client-side cryptographic subsystem of the encrypted file vault:        *)
(* CryptoUtils (codec, AES-GCM engine, secret splitter), FileService       *)
(* (upload, decrypt, soft-delete, restore, purge, key rotation) and the    *)
(* persistence tables they write (encrypted_files, key_shares,             *)
(* activity_logs).                                                         *)
(*                                                                         *)
(* Representation.  A byte is a number in 0..255 and a buffer a sequence   *)
(* of bytes.  A JavaScript string is the sequence of its code points, so   *)
(* a base64 string is a sequence of ASCII codes.  A call that can throw    *)
(* returns a record [ok, val] or [ok, err].                                *)
(***************************************************************************)
EXTENDS Integers, Sequences, FiniteSets, TLC

(***************************************************************************)
(* Byte and sequence helpers.                                              *)
(***************************************************************************)
Byte == 0..255

RECURSIVE Xor(_, _)
\* a ^ b on non-negative integers (the JavaScript ^ on two byte values)
Xor(a, b) ==
  IF a = 0 THEN b
  ELSE IF b = 0 THEN a
  ELSE ((a + b) % 2) + 2 * Xor(a \div 2, b \div 2)

RECURSIVE SumSeq(_)
SumSeq(s) == IF s = <<>> THEN 0 ELSE Head(s) + SumSeq(Tail(s))

RECURSIVE Pow2(_)
Pow2(n) == IF n = 0 THEN 1 ELSE 2 * Pow2(n - 1)

\* Uint8Array.prototype.slice(from, to) with 0-based from (inclusive), to (exclusive)
Slice(s, from, to) ==
  IF to <= from THEN <<>> ELSE [i \in 1..(to - from) |-> s[from + i]]

Ok(v) == [ok |-> TRUE, val |-> v]
Err(e) == [ok |-> FALSE, err |-> e]

(***************************************************************************)
(* Codec: btoa / atob over the standard base64 alphabet.                   *)
(***************************************************************************)
PadChar == 61

\* ASCII code of the base64 digit with value v
B64Char(v) ==
  IF v < 26 THEN 65 + v
  ELSE IF v < 52 THEN 97 + (v - 26)
  ELSE IF v < 62 THEN 48 + (v - 52)
  ELSE IF v = 62 THEN 43
  ELSE 47

IsB64Char(c) ==
  \/ c \in 65..90
  \/ c \in 97..122
  \/ c \in 48..57
  \/ c = 43
  \/ c = 47

\* value of a base64 digit
B64Val(c) ==
  IF c \in 65..90 THEN c - 65
  ELSE IF c \in 97..122 THEN c - 97 + 26
  ELSE IF c \in 48..57 THEN c - 48 + 52
  ELSE IF c = 43 THEN 62
  ELSE 63

RECURSIVE Btoa(_)
\* btoa(binary): three bytes become four digits; a short last group is padded with '='
Btoa(b) ==
  IF Len(b) = 0 THEN <<>>
  ELSE IF Len(b) = 1 THEN
    LET n == b[1] * 16
    IN <<B64Char(n \div 64), B64Char(n % 64), PadChar, PadChar>>
  ELSE IF Len(b) = 2 THEN
    LET n == (b[1] * 256 + b[2]) * 4
    IN <<B64Char(n \div 4096), B64Char((n \div 64) % 64), B64Char(n % 64), PadChar>>
  ELSE
    LET n == b[1] * 65536 + b[2] * 256 + b[3]
    IN <<B64Char(n \div 262144), B64Char((n \div 4096) % 64),
         B64Char((n \div 64) % 64), B64Char(n % 64)>>
       \o Btoa(SubSeq(b, 4, Len(b)))

IsAsciiWhitespace(c) == c \in {9, 10, 12, 13, 32}

RECURSIVE StripWhitespace(_)
StripWhitespace(s) ==
  IF s = <<>> THEN <<>>
  ELSE IF IsAsciiWhitespace(Head(s)) THEN StripWhitespace(Tail(s))
  ELSE <<Head(s)>> \o StripWhitespace(Tail(s))

RECURSIVE B64DecodeDigits(_)
\* the bytes of a run of base64 digits; the bits of a short last group that
\* do not fill a byte are discarded
B64DecodeDigits(d) ==
  IF Len(d) = 0 THEN <<>>
  ELSE IF Len(d) = 2 THEN
    LET n == B64Val(d[1]) * 64 + B64Val(d[2])
    IN <<n \div 16>>
  ELSE IF Len(d) = 3 THEN
    LET n == B64Val(d[1]) * 4096 + B64Val(d[2]) * 64 + B64Val(d[3])
    IN <<n \div 1024, (n \div 4) % 256>>
  ELSE
    LET n == B64Val(d[1]) * 262144 + B64Val(d[2]) * 4096 + B64Val(d[3]) * 64 + B64Val(d[4])
    IN <<n \div 65536, (n \div 256) % 256, n % 256>>
       \o B64DecodeDigits(SubSeq(d, 5, Len(d)))

\* atob(base64): forgiving-base64 decode; throws InvalidCharacterError
Atob(s) ==
  LET w == StripWhitespace(s)
      unpadded ==
        IF Len(w) % 4 = 0 /\ Len(w) >= 2 /\ w[Len(w)] = PadChar /\ w[Len(w) - 1] = PadChar
          THEN SubSeq(w, 1, Len(w) - 2)
        ELSE IF Len(w) % 4 = 0 /\ Len(w) >= 1 /\ w[Len(w)] = PadChar
          THEN SubSeq(w, 1, Len(w) - 1)
        ELSE w
  IN IF Len(unpadded) % 4 = 1 THEN Err("InvalidCharacterError")
     ELSE IF \E i \in 1..Len(unpadded) : ~IsB64Char(unpadded[i])
       THEN Err("InvalidCharacterError")
     ELSE Ok(B64DecodeDigits(unpadded))

\* CryptoUtils.arrayBufferToBase64
arrayBufferToBase64(buffer) == Btoa(buffer)

\* CryptoUtils.base64ToArrayBuffer
base64ToArrayBuffer(base64) == Atob(base64)

(***************************************************************************)
(* Text encoding: TextEncoder.encode and TextDecoder.decode (UTF-8,        *)
(* non-fatal: an ill-formed sequence decodes to U+FFFD, a leading byte     *)
(* order mark is dropped).                                                 *)
(***************************************************************************)
Replacement == 65533
ByteOrderMark == 65279

Utf8Char(cp) ==
  IF cp < 128 THEN <<cp>>
  ELSE IF cp < 2048 THEN <<192 + (cp \div 64), 128 + (cp % 64)>>
  ELSE IF cp < 65536 THEN
    <<224 + (cp \div 4096), 128 + ((cp \div 64) % 64), 128 + (cp % 64)>>
  ELSE
    <<240 + (cp \div 262144), 128 + ((cp \div 4096) % 64),
      128 + ((cp \div 64) % 64), 128 + (cp % 64)>>

RECURSIVE TextEncode(_)
\* new TextEncoder().encode(str)
TextEncode(str) ==
  IF str = <<>> THEN <<>> ELSE Utf8Char(Head(str)) \o TextEncode(Tail(str))

IsCont(b, i, lo, hi) == i <= Len(b) /\ b[i] >= lo /\ b[i] <= hi

RECURSIVE Utf8DecodeFrom(_, _)
Utf8DecodeFrom(b, i) ==
  IF i > Len(b) THEN <<>>
  ELSE
    LET c == b[i] IN
    IF c < 128 THEN <<c>> \o Utf8DecodeFrom(b, i + 1)
    ELSE IF c >= 194 /\ c <= 223 THEN
      IF IsCont(b, i + 1, 128, 191)
        THEN <<(c - 192) * 64 + (b[i + 1] - 128)>> \o Utf8DecodeFrom(b, i + 2)
        ELSE <<Replacement>> \o Utf8DecodeFrom(b, i + 1)
    ELSE IF c >= 224 /\ c <= 239 THEN
      LET lo == IF c = 224 THEN 160 ELSE 128
          hi == IF c = 237 THEN 159 ELSE 191
      IN IF ~IsCont(b, i + 1, lo, hi)
           THEN <<Replacement>> \o Utf8DecodeFrom(b, i + 1)
         ELSE IF ~IsCont(b, i + 2, 128, 191)
           THEN <<Replacement>> \o Utf8DecodeFrom(b, i + 2)
         ELSE <<(c - 224) * 4096 + (b[i + 1] - 128) * 64 + (b[i + 2] - 128)>>
              \o Utf8DecodeFrom(b, i + 3)
    ELSE IF c >= 240 /\ c <= 244 THEN
      LET lo == IF c = 240 THEN 144 ELSE 128
          hi == IF c = 244 THEN 143 ELSE 191
      IN IF ~IsCont(b, i + 1, lo, hi)
           THEN <<Replacement>> \o Utf8DecodeFrom(b, i + 1)
         ELSE IF ~IsCont(b, i + 2, 128, 191)
           THEN <<Replacement>> \o Utf8DecodeFrom(b, i + 2)
         ELSE IF ~IsCont(b, i + 3, 128, 191)
           THEN <<Replacement>> \o Utf8DecodeFrom(b, i + 3)
         ELSE <<(c - 240) * 262144 + (b[i + 1] - 128) * 4096
                 + (b[i + 2] - 128) * 64 + (b[i + 3] - 128)>>
              \o Utf8DecodeFrom(b, i + 4)
    ELSE <<Replacement>> \o Utf8DecodeFrom(b, i + 1)

\* new TextDecoder().decode(buffer)
TextDecode(buffer) ==
  LET s == Utf8DecodeFrom(buffer, 1)
  IN IF s # <<>> /\ s[1] = ByteOrderMark THEN Tail(s) ELSE s

(***************************************************************************)
(* Symmetric cipher engine.  crypto.subtle is the platform's AES-GCM; it   *)
(* is modelled as an authenticated cipher whose keystream and 16-byte tag  *)
(* are functions of (key, iv) and of (key, iv, ciphertext): the tag        *)
(* changes with every single-bit change of the ciphertext or the IV and    *)
(* differs between the keys of the model.                                  *)
(***************************************************************************)
KeyBytes == 32
IvBytes == 12
authTagLength == 16

\* key material of the k-th key the platform's random generator hands out
RawKey(k) == [i \in 1..KeyBytes |-> (k * 17 + i * 3) % 256]

\* the CryptoKey object of crypto.subtle.generateKey / importKey
CryptoKey(raw) ==
  [algorithm |-> "AES-GCM", length |-> Len(raw) * 8, extractable |-> TRUE, raw |-> raw]

\* CryptoUtils.generateKey, k the draw of the random generator
generateKey(k) == CryptoKey(RawKey(k))

\* CryptoUtils.exportKey
exportKey(key) == arrayBufferToBase64(key.raw)

KeyStream(raw, iv, i) == (SumSeq(raw) * 7 + SumSeq(iv) * 13 + i * 31 + 5) % 256

GcmTag(raw, iv, ct) ==
  [j \in 1..authTagLength |->
     IF j = 1 THEN SumSeq(ct) % 256
     ELSE IF j = 2 THEN SumSeq(iv) % 256
     ELSE IF j = 3 THEN SumSeq(raw) % 256
     ELSE IF j = 4 THEN Len(ct) % 256
     ELSE (SumSeq(raw) + 3 * SumSeq(iv) + 5 * SumSeq(ct) + 7 * j) % 256]

\* crypto.subtle.encrypt({name: 'AES-GCM', iv, tagLength: 128}, key, data)
SubtleEncrypt(key, iv, data) ==
  LET ct == [i \in 1..Len(data) |-> Xor(data[i], KeyStream(key.raw, iv, i))]
  IN ct \o GcmTag(key.raw, iv, ct)

\* crypto.subtle.decrypt({name: 'AES-GCM', iv, tagLength: 128}, key, buffer)
SubtleDecrypt(key, iv, buffer) ==
  IF Len(buffer) < authTagLength \/ Len(iv) = 0 THEN Err("OperationError")
  ELSE
    LET n == Len(buffer) - authTagLength
        ct == SubSeq(buffer, 1, n)
        tag == SubSeq(buffer, n + 1, Len(buffer))
    IN IF tag = GcmTag(key.raw, iv, ct)
         THEN Ok([i \in 1..n |-> Xor(ct[i], KeyStream(key.raw, iv, i))])
         ELSE Err("OperationError")

\* a payload handed to encryptData: a string or an ArrayBuffer
StringData(str) == [type |-> "string", val |-> str]
BufferData(buf) == [type |-> "ArrayBuffer", val |-> buf]

DecryptionFailed == "Decryption failed: Invalid key or corrupted data"

\* CryptoUtils.encryptData, iv the 12 bytes crypto.getRandomValues returns
encryptData(data, key, iv) ==
  LET dataBuffer == IF data.type = "string" THEN TextEncode(data.val) ELSE data.val
      encryptedArray == SubtleEncrypt(key, iv, dataBuffer)
      ciphertext == Slice(encryptedArray, 0, Len(encryptedArray) - authTagLength)
      authTag == Slice(encryptedArray, Len(encryptedArray) - authTagLength, Len(encryptedArray))
  IN [encryptedData |-> arrayBufferToBase64(ciphertext),
      iv |-> arrayBufferToBase64(iv),
      authTag |-> arrayBufferToBase64(authTag)]

\* decryptData putting the auth tag in front of the ciphertext
decryptData_tagFirst(encryptedData, iv, authTag, key) ==
  LET ciphertext == base64ToArrayBuffer(encryptedData)
      ivBuffer == base64ToArrayBuffer(iv)
      authTagBuffer == base64ToArrayBuffer(authTag)
  IN IF ~ciphertext.ok THEN ciphertext
     ELSE IF ~ivBuffer.ok THEN ivBuffer
     ELSE IF ~authTagBuffer.ok THEN authTagBuffer
     ELSE
       LET encryptedBuffer == authTagBuffer.val \o ciphertext.val
           decrypted == SubtleDecrypt(key, ivBuffer.val, encryptedBuffer)
       IN IF decrypted.ok THEN decrypted ELSE Err(DecryptionFailed)

\* decryptData whose catch block returns an empty buffer instead of throwing
decryptData_swallow(encryptedData, iv, authTag, key) ==
  LET ciphertext == base64ToArrayBuffer(encryptedData)
      ivBuffer == base64ToArrayBuffer(iv)
      authTagBuffer == base64ToArrayBuffer(authTag)
  IN IF ~ciphertext.ok THEN ciphertext
     ELSE IF ~ivBuffer.ok THEN ivBuffer
     ELSE IF ~authTagBuffer.ok THEN authTagBuffer
     ELSE
       LET encryptedBuffer == ciphertext.val \o authTagBuffer.val
           decrypted == SubtleDecrypt(key, ivBuffer.val, encryptedBuffer)
       IN IF decrypted.ok THEN decrypted ELSE Ok(<<>>)

\* CryptoUtils.decryptData: the three base64 decodings run before the try
\* block, only the failure of crypto.subtle.decrypt is caught and replaced
decryptData(encryptedData, iv, authTag, key) ==
  LET ciphertext == base64ToArrayBuffer(encryptedData)
      ivBuffer == base64ToArrayBuffer(iv)
      authTagBuffer == base64ToArrayBuffer(authTag)
  IN IF ~ciphertext.ok THEN ciphertext
     ELSE IF ~ivBuffer.ok THEN ivBuffer
     ELSE IF ~authTagBuffer.ok THEN authTagBuffer
     ELSE
       LET encryptedBuffer == ciphertext.val \o authTagBuffer.val
           decrypted == SubtleDecrypt(key, ivBuffer.val, encryptedBuffer)
       IN IF decrypted.ok THEN decrypted ELSE Err(DecryptionFailed)

\* CryptoUtils.decryptToString
decryptToString(encryptedData, iv, authTag, key) ==
  LET decrypted == decryptData(encryptedData, iv, authTag, key)
  IN IF decrypted.ok THEN Ok(TextDecode(decrypted.val)) ELSE decrypted

(***************************************************************************)
(* Secret splitter.                                                        *)
(***************************************************************************)
XorBytes(a, b) == [i \in 1..Len(a) |-> Xor(a[i], b[i])]

\* splitSecretShamir whose third share leaves out the second random draw
splitSecretShamir_oneDraw(secret, randomBytes1, randomBytes2) ==
  LET secretBytes == TextEncode(secret)
      share3 == [i \in 1..Len(secretBytes) |-> Xor(secretBytes[i], randomBytes1[i])]
  IN << [shareType |-> "user_share", encryptedShare |-> arrayBufferToBase64(randomBytes1)],
        [shareType |-> "recovery_share", encryptedShare |-> arrayBufferToBase64(randomBytes2)],
        [shareType |-> "device_share", encryptedShare |-> arrayBufferToBase64(share3)] >>

\* CryptoUtils.splitSecretShamir, randomBytes1 and randomBytes2 the two
\* draws of crypto.getRandomValues (each of the length of the encoded secret)
splitSecretShamir(secret, randomBytes1, randomBytes2) ==
  LET secretBytes == TextEncode(secret)
      share3 == [i \in 1..Len(secretBytes) |->
                   Xor(Xor(secretBytes[i], randomBytes1[i]), randomBytes2[i])]
  IN << [shareType |-> "user_share", encryptedShare |-> arrayBufferToBase64(randomBytes1)],
        [shareType |-> "recovery_share", encryptedShare |-> arrayBufferToBase64(randomBytes2)],
        [shareType |-> "device_share", encryptedShare |-> arrayBufferToBase64(share3)] >>

\* CryptoUtils.reconstructSecretShamir
reconstructSecretShamir(share1, share2) ==
  LET bytes1 == base64ToArrayBuffer(share1)
      bytes2 == base64ToArrayBuffer(share2)
  IN IF ~bytes1.ok THEN bytes1
     ELSE IF ~bytes2.ok THEN bytes2
     ELSE IF Len(bytes1.val) # Len(bytes2.val) THEN Err("Share lengths do not match")
     ELSE Ok(TextDecode(XorBytes(bytes1.val, bytes2.val)))

(***************************************************************************)
(* Bounds and input sets.                                                  *)
(***************************************************************************)
MaxKeys == 3
MaxIvs == 2
MaxSeeds == 2

\* the keys generateKey hands out, in the order of the draws
KeyIds == 1..MaxKeys

\* a key the system never generated (one a user mistypes or makes up)
ForeignKey == 0

\* the keys a caller can hold after `draws` draws
KnownKeys(drawn) == {ForeignKey} \cup 1..drawn

\* the 12 random bytes of the n-th IV draw
IvOf(n) == [i \in 1..IvBytes |-> (n * 29 + i * 11) % 256]

\* the len random bytes of a crypto.getRandomValues draw with seed n
RandomBytes(n, len) == [i \in 1..len |-> (n * 53 + i * 7) % 256]

\* "hello world"
HelloWorld == <<104, 101, 108, 108, 111, 32, 119, 111, 114, 108, 100>>

Payloads ==
  { BufferData(<<>>), BufferData(<<0>>), BufferData(<<255, 0>>),
    BufferData(<<137, 2, 1, 77>>), StringData(HelloWorld), StringData(<<233, 8364>>) }

PayloadBytes(data) == IF data.type = "string" THEN TextEncode(data.val) ELSE data.val

Secrets == { exportKey(generateKey(k)) : k \in KeyIds } \cup { <<65>>, <<>>, <<233, 8364>> }

MaxFiles == 1
MaxFaults == 1
MaxBatch == 2
MaxNotes == 1
MaxNoteKeys == 2

FileIds == 1..MaxFiles
Clients == {"c1", "c2"}
UserId == "u1"

Null == "null"
\* new Date().toISOString() and the now() column default
Timestamp == "now"

(***************************************************************************)
(* Files a user can pick for upload.  An image file is taken to start with *)
(* the byte 137, followed by its width and height in units of 100 pixels   *)
(* and by its pixel data; any other content does not decode as an image.   *)
(***************************************************************************)
File(name, type, content) ==
  [name |-> name, type |-> type, size |-> Len(content), content |-> content]

UploadFiles ==
  { File("a.txt", "text/plain", <<104, 105>>),
    File("p.png", "image/png", <<137, 4, 2, 77>>),
    File("bad.png", "image/png", <<0, 1>>) }

\* file.type.startsWith('image/')
IsImageType(type) == type \in {"image/png", "image/jpeg"}

\* what the browser's Image element makes of the file content
DecodeImage(content) ==
  IF Len(content) >= 4 /\ content[1] = 137
    THEN [ok |-> TRUE, width |-> content[2] * 100, height |-> content[3] * 100,
          pixels |-> SubSeq(content, 4, Len(content))]
    ELSE [ok |-> FALSE]

MAX_SIZE == 200

\* canvas.toDataURL('image/jpeg', 0.7) of the image drawn at width x height
ToDataURL(img, width, height) ==
  [mime |-> "image/jpeg", width |-> width, height |-> height,
   pixels |-> [i \in 1..Len(img.pixels) |-> (img.pixels[i] \div 4) * 4]]

\* CryptoUtils.generateThumbnail: [resolved |-> FALSE] is a promise that
\* never settles (img.onload never fires and nothing else resolves it)
generateThumbnail(file) ==
  IF ~IsImageType(file.type) THEN [resolved |-> TRUE, val |-> Null]
  ELSE
    LET img == DecodeImage(file.content) IN
    IF ~img.ok THEN [resolved |-> FALSE]
    ELSE
      LET width == IF img.width > img.height
                     THEN (IF img.width > MAX_SIZE THEN MAX_SIZE ELSE img.width)
                     ELSE (IF img.height > MAX_SIZE
                             THEN (img.width * MAX_SIZE) \div img.height ELSE img.width)
          height == IF img.width > img.height
                      THEN (IF img.width > MAX_SIZE
                              THEN (img.height * MAX_SIZE) \div img.width ELSE img.height)
                      ELSE (IF img.height > MAX_SIZE THEN MAX_SIZE ELSE img.height)
      IN [resolved |-> TRUE, val |-> ToDataURL(img, width, height)]

\* CryptoUtils.encryptFile
encryptFile(file, key, iv) == encryptData(BufferData(file.content), key, iv)

\* CryptoUtils.importKey: crypto.subtle.importKey('raw', ...) takes AES keys
\* of 128, 192 and 256 bits and throws DataError for any other length
importKey(keyString) ==
  LET keyBuffer == base64ToArrayBuffer(keyString)
  IN IF ~keyBuffer.ok THEN keyBuffer
     ELSE IF Len(keyBuffer.val) \in {16, 24, 32} THEN Ok(CryptoKey(keyBuffer.val))
     ELSE Err("DataError")

(***************************************************************************)
(* ShareService: password hashing, tokens and the access check.            *)
(***************************************************************************)
HashBytes == 32

\* crypto.subtle.digest('SHA-256', data): a stand-in digest of 32 bytes that
\* tells apart the byte strings of the model
Sha256(data) ==
  [j \in 1..HashBytes |-> (SumSeq(data) * (2 * j + 1) + Len(data) * 7 + j * 11) % 256]

\* CryptoUtils.hashPassword
hashPassword(password) == arrayBufferToBase64(Sha256(TextEncode(password)))

\* the character of a hexadecimal digit, lower case
HexDigit(d) == IF d < 10 THEN 48 + d ELSE 87 + d

\* CryptoUtils.generateRandomToken(length) on the random bytes of seed n:
\* byte.toString(16).padStart(2, '0') of every byte, joined
generateRandomToken(length, n) ==
  LET array == RandomBytes(n, length)
  IN [i \in 1..(2 * length) |->
        LET byte == array[(i + 1) \div 2]
        IN IF i % 2 = 1 THEN HexDigit(byte \div 16) ELSE HexDigit(byte % 16)]

TokenBytes == 32

\* the milliseconds of params.expiryHours * 60 * 60 * 1000
HourMs == 60 * 60 * 1000

\* a nullable column or an optional parameter: Nil for null / undefined,
\* Some(v) for the value v
Nil == <<>>
Some(v) == <<v>>

\* JavaScript truthiness of a nullable number, of a nullable string
TruthyNumber(x) == x # Nil /\ x[1] # 0
TruthyString(x) == x # Nil /\ x[1] # <<>>

\* validateShareAccess without the expiry test
validateShareAccess_noExpiry(shareLink, password, date) ==
  IF TruthyNumber(shareLink.max_views) /\ shareLink.view_count >= shareLink.max_views[1]
    THEN FALSE
  ELSE IF TruthyString(shareLink.password_hash) /\ TruthyString(password)
    THEN hashPassword(password[1]) = shareLink.password_hash[1]
  ELSE IF TruthyString(shareLink.password_hash) /\ ~TruthyString(password)
    THEN FALSE
  ELSE TRUE

\* ShareService.validateShareAccess(shareLink, password) called at time
\* `date` (new Date()); expires_at is kept as the milliseconds of its date
validateShareAccess(shareLink, password, date) ==
  IF shareLink.expires_at # Nil /\ shareLink.expires_at[1] < date
    THEN FALSE
  ELSE IF TruthyNumber(shareLink.max_views) /\ shareLink.view_count >= shareLink.max_views[1]
    THEN FALSE
  ELSE IF TruthyString(shareLink.password_hash) /\ TruthyString(password)
    THEN hashPassword(password[1]) = shareLink.password_hash[1]
  ELSE IF TruthyString(shareLink.password_hash) /\ ~TruthyString(password)
    THEN FALSE
  ELSE TRUE

(***************************************************************************)
(* Tables of the cipher engine's results on the values of the model, so    *)
(* that each is computed once: Table(f) is f with its values computed.     *)
(***************************************************************************)
Table(f) == f @@ << >>

\* generateKey(k)
KeyOf == Table([k \in {ForeignKey} \cup KeyIds |-> generateKey(k)])

\* the shares uploadEncryptedFile and regenerateFileKey make of the key of
\* the n-th draw: splitSecretShamir(exportKey(key)) with its two random draws
SharesTable ==
  Table([n \in KeyIds |->
           LET keyString == exportKey(KeyOf[n])
               len == Len(TextEncode(keyString))
           IN splitSecretShamir(keyString, RandomBytes(2 * n - 1, len), RandomBytes(2 * n, len))])

Contents == {file.content : file \in UploadFiles}

\* encryptData(content, key of the n-th draw) with the IV of the n-th draw
EncryptTable ==
  Table([x \in Contents \X KeyIds |-> encryptData(BufferData(x[1]), KeyOf[x[2]], IvOf(x[2]))])

Encryptions == {EncryptTable[x] : x \in DOMAIN EncryptTable}

\* decryptData(e.encryptedData, e.iv, e.authTag, key k)
DecryptTable ==
  Table([x \in Encryptions \X ({ForeignKey} \cup KeyIds) |->
           decryptData(x[1].encryptedData, x[1].iv, x[1].authTag, KeyOf[x[2]])])

Encrypted(content, n) == EncryptTable[<<content, n>>]

\* decryptData answering as if the key were the right one, whatever key it
\* is given
Decrypted_keyUnchecked(encrypted_data, iv, auth_tag, k) ==
  LET e == [encryptedData |-> encrypted_data, iv |-> iv, authTag |-> auth_tag]
      right == {j \in KeyIds : DecryptTable[<<e, j>>].ok}
  IN IF right = {} THEN DecryptTable[<<e, k>>]
     ELSE DecryptTable[<<e, CHOOSE j \in right : TRUE>>]

Decrypted(encrypted_data, iv, auth_tag, k) ==
  DecryptTable[<<[encryptedData |-> encrypted_data, iv |-> iv, authTag |-> auth_tag], k>>]

VARIABLES
  encrypted_files,   \* table encrypted_files: id -> row
  key_shares,        \* table key_shares: set of rows, UNIQUE(file_id, share_type)
  activity_logs,     \* table activity_logs: its newest row
  nextFileId,        \* ids handed out by gen_random_uuid(), in order
  draws,             \* number of draws made from the random generator
  plain,             \* id -> the content the user uploaded (never stored)
  regen,             \* client -> its regenerateFileKey call
  faults,            \* number of persistence calls that have come back with an error
  rotated,           \* id -> number of regenerateFileKey calls that returned normally
  cu, ss,
  share_links,       \* table share_links: id -> row
  nextShareId,       \* ids handed out by gen_random_uuid(), in order
  now,               \* the clock, in milliseconds
  viewer,            \* client -> its access request on a share link
  viewed,            \* link id -> number of incrementViewCount calls completed
  secure_notes,      \* table secure_notes: id -> row
  uploadPage,        \* the Upload page: its handleUpload call and what it shows
  audit,             \* the workflow call that ended last: how it ended, what it logged
  auth,              \* the account's profile row, the client's session, the signIn calls
  notesPage          \* the Notes page: whether it is mounted, the key it holds

sysvars == <<encrypted_files, key_shares, activity_logs, nextFileId, draws,
             faults, plain, regen, rotated>>

sharevars == <<share_links, nextShareId, now, viewer, viewed>>

pagevars == <<auth, notesPage>>

appvars == <<secure_notes, uploadPage, audit, pagevars>>

vars == <<encrypted_files, key_shares, activity_logs, nextFileId, draws,
          faults, plain, regen, rotated, cu, ss, sharevars, appvars>>

None == [ok |-> FALSE, err |-> "none"]

(***************************************************************************)
(* CryptoUtils called on its own: one encryption, then the stored triple   *)
(* is read back (possibly after one bit of it was changed) and decrypted.  *)
(***************************************************************************)
CuInit ==
  cu \in [pc : {"start"}, data : Payloads, key : KeyIds, iv : 1..MaxIvs,
          enc : {None}, flipped : {"no"}, usedKey : {0}, out : {None},
          keyString : {<<>>}]

CuIdle ==
  cu = [pc |-> "off", data |-> BufferData(<<>>), key |-> 1, iv |-> 1,
        enc |-> None, flipped |-> "no", usedKey |-> 0, out |-> None,
        keyString |-> <<>>]

CuEncrypt ==
  /\ cu.pc = "start"
  /\ cu' = [cu EXCEPT !.pc = "encrypted",
                      !.enc = encryptData(cu.data, generateKey(cu.key), IvOf(cu.iv))]
  /\ UNCHANGED <<sysvars, ss, sharevars, appvars>>

\* the base64 text of buffer with bit `bit` of its byte `pos` inverted
FlipBit(base64, pos, bit) ==
  LET buf == base64ToArrayBuffer(base64).val
  IN arrayBufferToBase64([buf EXCEPT ![pos] = Xor(buf[pos], Pow2(bit))])

FieldLen(base64) == Len(base64ToArrayBuffer(base64).val)

CuFlip ==
  /\ cu.pc = "encrypted"
  /\ cu.flipped = "no"
  /\ \E field \in {"encryptedData", "iv", "authTag"}, bit \in 0..7 :
       \E pos \in 1..FieldLen(cu.enc[field]) :
         cu' = [cu EXCEPT !.flipped = field,
                          !.enc = [cu.enc EXCEPT ![field] = FlipBit(cu.enc[field], pos, bit)]]
  /\ UNCHANGED <<sysvars, ss, sharevars, appvars>>

CuDecrypt ==
  /\ cu.pc = "encrypted"
  /\ \E k \in KeyIds :
       cu' = [cu EXCEPT !.pc = "decrypted", !.usedKey = k,
                        !.out = decryptData(cu.enc.encryptedData, cu.enc.iv,
                                            cu.enc.authTag, generateKey(k))]
  /\ UNCHANGED <<sysvars, ss, sharevars, appvars>>

\* '*', a character outside the base64 alphabet
Asterisk == 42

\* a stored field whose base64 text has been damaged: one character of it is
\* no base64 character any more
CuMalform ==
  /\ cu.pc = "encrypted"
  /\ cu.flipped = "no"
  /\ \E field \in {"encryptedData", "iv", "authTag"} :
       \E pos \in 1..Len(cu.enc[field]) :
         cu' = [cu EXCEPT !.flipped = "base64",
                          !.enc = [cu.enc EXCEPT ![field] =
                                     [cu.enc[field] EXCEPT ![pos] = Asterisk]]]
  /\ UNCHANGED <<sysvars, ss, sharevars, appvars>>

\* the byte lengths of the key strings handed to importKey
ImportLengths == {0, 16, 24, 31, 32, 33}

\* CryptoUtils.importKey on the base64 text of len bytes
CuImport ==
  /\ cu.pc = "start"
  /\ \E len \in ImportLengths :
       LET keyString == arrayBufferToBase64(RandomBytes(cu.iv, len))
       IN cu' = [cu EXCEPT !.pc = "imported", !.keyString = keyString,
                           !.out = importKey(keyString)]
  /\ UNCHANGED <<sysvars, ss, sharevars, appvars>>

(***************************************************************************)
(* The secret splitter called on its own: split, then reconstruct from two *)
(* of the three shares.                                                    *)
(***************************************************************************)
NoShares == <<>>

SsInit ==
  ss \in [pc : {"start"}, secret : Secrets, seed1 : 1..MaxSeeds, seed2 : 1..MaxSeeds,
          shares : {NoShares}, a : {0}, b : {0}, out : {None}]

SsIdle ==
  ss = [pc |-> "off", secret |-> <<>>, seed1 |-> 1, seed2 |-> 1,
        shares |-> NoShares, a |-> 0, b |-> 0, out |-> None]

SsSplit ==
  /\ ss.pc = "start"
  /\ LET n == Len(TextEncode(ss.secret))
     IN ss' = [ss EXCEPT !.pc = "split",
                         !.shares = splitSecretShamir(ss.secret, RandomBytes(ss.seed1, n),
                                                      RandomBytes(ss.seed2, n))]
  /\ UNCHANGED <<sysvars, cu, sharevars, appvars>>

SsReconstruct ==
  /\ ss.pc = "split"
  /\ \E a \in 1..3, b \in 1..3 :
       /\ a # b
       /\ ss' = [ss EXCEPT !.pc = "reconstructed", !.a = a, !.b = b,
                           !.out = reconstructSecretShamir(ss.shares[a].encryptedShare,
                                                           ss.shares[b].encryptedShare)]
  /\ UNCHANGED <<sysvars, cu, sharevars, appvars>>

(***************************************************************************)
(* Persistence: the supabase client returns {data, error}; it does not     *)
(* throw.  Every call can come back with an error (network, policy).       *)
(***************************************************************************)
NoLog == [action |-> "none", status |-> "none"]

LogEntry(action, status) == [action |-> action, status |-> status]

\* the outcomes of the k persistence calls of one step that the fault budget
\* allows: f[i] tells whether the i-th call comes back with an error
FaultChoices(k) ==
  {f \in [1..k -> BOOLEAN] : faults + Cardinality({i \in 1..k : f[i]}) <= MaxFaults}

FaultCount(f) == Cardinality({i \in DOMAIN f : f[i]})

\* ActivityLogService.log: activity_logs after the call; a failed insert is
\* reported on the console only and leaves the table as it was
Logged(logs, action, status, fails) ==
  IF fails THEN logs ELSE LogEntry(action, status)

\* ActivityLogService.log rethrowing what its insert threw
LogRaises_rethrow(fails) == fails

\* ActivityLogService.log: whether the call throws when its insert fails.
\* The error the insert returns is printed, what it throws is caught.
LogRaises(fails) == FALSE

\* whether a workflow call throws: its own error, or one log() let through
Thrown(core, logFault) == core \/ LogRaises(logFault)

\* audit is kept only where it is looked at
AuditOff == [op |-> "off"]

AuditIdle ==
  [op |-> "none", failed |-> FALSE, ownError |-> FALSE, thrown |-> FALSE,
   loggedFailed |-> FALSE, logFault |-> FALSE]

\* audit after a workflow call `op` has ended: failed tells whether one of
\* the steps it awaited came back with an error or threw, core (ownError)
\* whether the call threw that error, thrown whether the call threw at all,
\* loggedFailed whether it called log() with status 'failed', logFault
\* whether a log insert of it failed
Audited(op, failed, core, loggedFailed, logFault) ==
  IF audit = AuditOff THEN audit
  ELSE [op |-> op, failed |-> failed, ownError |-> core,
        thrown |-> Thrown(core, logFault),
        loggedFailed |-> loggedFailed, logFault |-> logFault]

\* sign-in and the Notes page are kept only where they are looked at
AuthOff == [pc |-> "off"]

NotesPageOff == [pc |-> "off"]

PagesOff == auth = AuthOff /\ notesPage = NotesPageOff

\* the Upload page is kept only where it is looked at
PageOff == [pc |-> "off"]

PageIdle ==
  [pc |-> "idle", left |-> 0, newErrors |-> 0, lastKey |-> <<>>, storedKeys |-> {},
   encryptionKey |-> <<>>, success |-> FALSE]

\* Upload.handleUpload, one round of its loop over the files: lastKey is the
\* exported key of the round, a thrown upload adds to newErrors
AfterUpload(lastKey, n, thrown) ==
  IF uploadPage = PageOff THEN uploadPage
  ELSE [uploadPage EXCEPT
          !.left = @ - 1,
          !.lastKey = lastKey,
          !.newErrors = IF thrown THEN @ + 1 ELSE @,
          !.storedKeys = IF thrown THEN @ ELSE @ \cup {n}]

\* Upload.handleUpload left at `await fileService.uploadEncryptedFile(...)`
\* by a call that awaits a thumbnail promise nothing settles: the loop goes
\* no further and setUploading(false) is never reached
AwaitingThumbnail ==
  IF uploadPage = PageOff THEN uploadPage
  ELSE [uploadPage EXCEPT !.pc = "awaitingThumbnail"]

ShareRow(fileId, share) ==
  [user_id |-> UserId, file_id |-> fileId, share_type |-> share.shareType,
   encrypted_share |-> share.encryptedShare]

\* supabase.from('key_shares').insert(row): rejected by the foreign key when
\* the file row is gone and by UNIQUE(file_id, share_type)
InsertShare(files, shares, row, fails) ==
  IF fails \/ row.file_id \notin DOMAIN files
     \/ (\E r \in shares : r.file_id = row.file_id /\ r.share_type = row.share_type)
    THEN shares
    ELSE shares \cup {row}

RECURSIVE InsertShares(_, _, _, _, _)
\* the loop `for (const share of shares) await insert(...)`, fails[i] telling
\* whether the i-th insert comes back with an error (which nobody reads)
InsertShares(files, stored, fileId, shares, fails) ==
  IF shares = <<>> THEN stored
  ELSE InsertShares(files,
                    InsertShare(files, stored, ShareRow(fileId, Head(shares)), Head(fails)),
                    fileId, Tail(shares), Tail(fails))

SharesOf(fileId) == {r \in key_shares : r.file_id = fileId}

Restrict(f, dom) == [x \in dom |-> f[x]]

(***************************************************************************)
(* FileService.                                                            *)
(***************************************************************************)
\* Upload.handleUpload for one file: generateKey, then
\* FileService.uploadEncryptedFile(file, key, userId).  Persistence calls:
\* 1 the file insert, 2..4 the share inserts, 5 the log insert.
UploadEncryptedFile ==
  /\ draws < MaxKeys
  /\ nextFileId <= MaxFiles
  /\ uploadPage = PageOff \/ (uploadPage.pc = "uploading" /\ uploadPage.left > 0)
  /\ \E file \in UploadFiles, f \in FaultChoices(5) :
       LET n == draws + 1
           encryptionResult == Encrypted(file.content, n)
           thumbnail == generateThumbnail(file)
           shares == SharesTable[n]
           id == nextFileId
       IN IF ~thumbnail.resolved THEN
            \* the call waits for its thumbnail for ever: nothing is stored
            /\ FaultCount(f) = 0
            /\ uploadPage' = AwaitingThumbnail
            /\ UNCHANGED <<encrypted_files, key_shares, activity_logs, nextFileId, draws,
                           faults, plain, rotated, audit>>
          ELSE IF f[1] THEN
            /\ ~f[2] /\ ~f[3] /\ ~f[4]
            /\ activity_logs' = Logged(activity_logs, "file_upload", "failed", f[5])
            /\ audit' = Audited("file_upload", TRUE, TRUE, TRUE, f[5])
            /\ uploadPage' = AfterUpload(exportKey(KeyOf[n]), n, Thrown(TRUE, f[5]))
            /\ faults' = faults + FaultCount(f)
            /\ UNCHANGED <<encrypted_files, key_shares, nextFileId, draws, plain,
                           rotated>>
          ELSE
            LET fileData ==
                  [user_id |-> UserId,
                   file_name |-> file.name,
                   file_type |-> file.type,
                   file_size |-> file.size,
                   encrypted_data |-> encryptionResult.encryptedData,
                   iv |-> encryptionResult.iv,
                   auth_tag |-> encryptionResult.authTag,
                   storage_path |-> <<"files", UserId, file.name>>,
                   thumbnail_data |-> thumbnail.val,
                   version |-> 1,
                   is_deleted |-> FALSE,
                   deleted_at |-> Null,
                   key_rotation_date |-> Timestamp,
                   last_accessed |-> Null]
                files == (id :> fileData) @@ encrypted_files
            IN /\ encrypted_files' = files
               /\ draws' = n
               /\ nextFileId' = id + 1
               /\ plain' = (id :> file.content) @@ plain
               /\ rotated' = (id :> 0) @@ rotated
               /\ key_shares' = InsertShares(files, key_shares, id, shares, <<f[2], f[3], f[4]>>)
               /\ activity_logs' = Logged(activity_logs, "file_upload", "success", f[5])
               /\ audit' = Audited("file_upload", f[2] \/ f[3] \/ f[4], FALSE, FALSE, f[5])
               /\ uploadPage' = AfterUpload(exportKey(KeyOf[n]), n, Thrown(FALSE, f[5]))
               /\ faults' = faults + FaultCount(f)
  /\ UNCHANGED <<regen, cu, ss, sharevars, secure_notes, pagevars>>

\* Upload.handleUpload up to its loop: the page's state is reset and the
\* loop is entered with the files the user picked, 1..MaxBatch of them
HandleUploadStart ==
  /\ uploadPage # PageOff
  /\ uploadPage.pc \in {"idle", "shown"}
  /\ \E files \in 1..MaxBatch :
       uploadPage' = [PageIdle EXCEPT !.pc = "uploading", !.left = files]
  /\ UNCHANGED <<sysvars, cu, ss, sharevars, secure_notes, audit, pagevars>>

\* Upload.handleUpload after its loop: the last key is shown only when no
\* file of the batch failed
HandleUploadFinish ==
  /\ uploadPage # PageOff
  /\ uploadPage.pc = "uploading"
  /\ uploadPage.left = 0
  /\ uploadPage' =
       IF uploadPage.newErrors = 0
         THEN [uploadPage EXCEPT !.pc = "shown", !.success = TRUE,
                                 !.encryptionKey = uploadPage.lastKey]
         ELSE [uploadPage EXCEPT !.pc = "shown"]
  /\ UNCHANGED <<sysvars, cu, ss, sharevars, secure_notes, audit, pagevars>>

\* FileService.decryptFile on the stored row of id, with key number k.
\* Persistence calls: 1 the last_accessed update, 2 the log insert.
DecryptFile ==
  /\ \E id \in DOMAIN encrypted_files, k \in KnownKeys(draws), f \in FaultChoices(2) :
       LET file == encrypted_files[id]
           decrypted == Decrypted(file.encrypted_data, file.iv, file.auth_tag, k)
       IN /\ IF decrypted.ok THEN
               /\ encrypted_files' =
                    IF f[1] THEN encrypted_files
                    ELSE [encrypted_files EXCEPT ![id].last_accessed = Timestamp]
               /\ activity_logs' = Logged(activity_logs, "file_decrypt", "success", f[2])
               /\ audit' = Audited("file_decrypt", f[1], FALSE, FALSE, f[2])
             ELSE
               /\ ~f[1]
               /\ activity_logs' = Logged(activity_logs, "file_decrypt", "failed", f[2])
               /\ audit' = Audited("file_decrypt", TRUE, TRUE, TRUE, f[2])
               /\ UNCHANGED encrypted_files
          /\ faults' = faults + FaultCount(f)
  /\ UNCHANGED <<key_shares, nextFileId, draws, plain, regen, rotated, cu, ss, sharevars,
                 secure_notes, uploadPage, pagevars>>

\* deleteFile writing is_deleted only
DeleteFile_flagOnly ==
  /\ \E id \in FileIds, f \in FaultChoices(2) :
       /\ IF f[1] THEN
            /\ activity_logs' = Logged(activity_logs, "file_delete", "failed", f[2])
            /\ audit' = Audited("file_delete", TRUE, TRUE, TRUE, f[2])
            /\ UNCHANGED encrypted_files
          ELSE
            /\ encrypted_files' =
                 IF id \in DOMAIN encrypted_files
                   THEN [encrypted_files EXCEPT ![id].is_deleted = TRUE]
                   ELSE encrypted_files
            /\ activity_logs' = Logged(activity_logs, "file_delete", "success", f[2])
            /\ audit' = Audited("file_delete", FALSE, FALSE, FALSE, f[2])
       /\ faults' = faults + FaultCount(f)
  /\ UNCHANGED <<key_shares, nextFileId, draws, plain, regen, rotated, cu, ss, sharevars,
                 secure_notes, uploadPage, pagevars>>

\* FileService.deleteFile.  Persistence calls: 1 the update, 2 the log insert.
DeleteFile ==
  /\ \E id \in FileIds, f \in FaultChoices(2) :
       /\ IF f[1] THEN
            /\ activity_logs' = Logged(activity_logs, "file_delete", "failed", f[2])
            /\ audit' = Audited("file_delete", TRUE, TRUE, TRUE, f[2])
            /\ UNCHANGED encrypted_files
          ELSE
            /\ encrypted_files' =
                 IF id \in DOMAIN encrypted_files
                   THEN [encrypted_files EXCEPT ![id].is_deleted = TRUE,
                                                ![id].deleted_at = Timestamp]
                   ELSE encrypted_files
            /\ activity_logs' = Logged(activity_logs, "file_delete", "success", f[2])
            /\ audit' = Audited("file_delete", FALSE, FALSE, FALSE, f[2])
       /\ faults' = faults + FaultCount(f)
  /\ UNCHANGED <<key_shares, nextFileId, draws, plain, regen, rotated, cu, ss, sharevars,
                 secure_notes, uploadPage, pagevars>>

\* FileService.restoreFile.  Persistence calls: 1 the update, 2 the log insert.
RestoreFile ==
  /\ \E id \in FileIds, f \in FaultChoices(2) :
       /\ IF f[1] THEN
            /\ activity_logs' = Logged(activity_logs, "file_restore", "failed", f[2])
            /\ audit' = Audited("file_restore", TRUE, TRUE, TRUE, f[2])
            /\ UNCHANGED encrypted_files
          ELSE
            /\ encrypted_files' =
                 IF id \in DOMAIN encrypted_files
                   THEN [encrypted_files EXCEPT ![id].is_deleted = FALSE,
                                                ![id].deleted_at = Null]
                   ELSE encrypted_files
            /\ activity_logs' = Logged(activity_logs, "file_restore", "success", f[2])
            /\ audit' = Audited("file_restore", FALSE, FALSE, FALSE, f[2])
       /\ faults' = faults + FaultCount(f)
  /\ UNCHANGED <<key_shares, nextFileId, draws, plain, regen, rotated, cu, ss, sharevars,
                 secure_notes, uploadPage, pagevars>>

\* FileService.permanentlyDeleteFile; key_shares and share_links rows go with
\* the file row (ON DELETE CASCADE).  Persistence calls: 1 the delete.
PermanentlyDeleteFile ==
  /\ \E id \in DOMAIN encrypted_files, f \in FaultChoices(1) :
       /\ encrypted_files' =
            IF f[1] THEN encrypted_files
            ELSE Restrict(encrypted_files, DOMAIN encrypted_files \ {id})
       /\ key_shares' = IF f[1] THEN key_shares ELSE {r \in key_shares : r.file_id # id}
       /\ share_links' =
            IF f[1] THEN share_links
            ELSE Restrict(share_links,
                          {l \in DOMAIN share_links : share_links[l].file_id # id})
       /\ faults' = faults + FaultCount(f)
  /\ UNCHANGED <<activity_logs, nextFileId, draws, plain, regen, rotated, cu, ss,
                 nextShareId, now, viewer, viewed, appvars>>

(***************************************************************************)
(* FileService.regenerateFileKey, one step per awaited persistence call.   *)
(* pre and stepFailed are history: the stored state when the call started  *)
(* and whether one of its steps has failed.                                *)
(***************************************************************************)
NoFile == [version |-> 0]

\* what a call in progress keeps for the audit: whether a step of its
\* decryptFile failed, whether a log insert failed
Unnoted == [failed |-> FALSE, logFault |-> FALSE]

Noted(failed, logFault) ==
  IF audit = AuditOff THEN Unnoted ELSE [failed |-> failed, logFault |-> logFault]

RegenIdle ==
  [pc |-> "idle", fileId |-> 0, oldKey |-> 0, n |-> 0, file |-> NoFile,
   newEncryption |-> None, shares |-> NoShares, i |-> 0,
   stepFailed |-> FALSE, preShares |-> {}, origin |-> "service", noted |-> Unnoted]

Stored(files, id) == IF id \in DOMAIN files THEN files[id] ELSE NoFile

\* no regenerateFileKey call of client c is in progress
Returned(c) == regen[c].pc \in {"idle", "done", "failed"}

\* the call up to its update: getFileById, then this.decryptFile(file,
\* oldKey, userId) on the row read, then generateKey, encryptData, exportKey
\* and splitSecretShamir.  Persistence calls: 1 getFileById, 2 the
\* last_accessed update and 3 the log insert of decryptFile, 4 the log insert
\* of the catch block.
RegenStart(c, oldKeys, origin) ==
  /\ Returned(c)
  /\ draws < MaxKeys
  /\ \E fileId \in FileIds, oldKey \in oldKeys, f \in FaultChoices(4) :
       LET started == [RegenIdle EXCEPT !.fileId = fileId, !.oldKey = oldKey,
                                        !.preShares = SharesOf(fileId),
                                        !.origin = origin]
           thrown == [started EXCEPT !.pc = "failed", !.stepFailed = TRUE,
                                     !.file = Stored(encrypted_files, fileId)]
       IN /\ IF f[1] \/ fileId \notin DOMAIN encrypted_files THEN
               /\ ~f[2] /\ ~f[3]
               /\ regen' = [regen EXCEPT ![c] = thrown]
               /\ activity_logs' = Logged(activity_logs, "key_regen", "failed", f[4])
               /\ audit' = Audited("key_regen", TRUE, TRUE, TRUE, f[4])
               /\ UNCHANGED <<encrypted_files, draws>>
             ELSE
               LET file == encrypted_files[fileId]
                   decrypted == Decrypted(file.encrypted_data, file.iv, file.auth_tag, oldKey)
                   n == draws + 1
               IN IF decrypted.ok THEN
                    /\ ~f[4]
                    /\ encrypted_files' =
                         IF f[2] THEN encrypted_files
                         ELSE [encrypted_files EXCEPT ![fileId].last_accessed = Timestamp]
                    /\ activity_logs' = Logged(activity_logs, "file_decrypt", "success", f[3])
                    /\ regen' = [regen EXCEPT ![c] =
                         [started EXCEPT
                            !.pc = "update", !.n = n, !.file = file,
                            !.newEncryption = Encrypted(decrypted.val, n),
                            !.shares = SharesTable[n],
                            !.noted = Noted(f[2], f[3])]]
                    /\ draws' = n
                    /\ UNCHANGED audit
                  ELSE
                    /\ ~f[2]
                    /\ regen' = [regen EXCEPT ![c] = thrown]
                    /\ activity_logs' =
                         Logged(Logged(activity_logs, "file_decrypt", "failed", f[3]),
                                "key_regen", "failed", f[4])
                    /\ audit' = Audited("key_regen", TRUE, TRUE, TRUE, f[3] \/ f[4])
                    /\ UNCHANGED <<encrypted_files, draws>>
          /\ faults' = faults + FaultCount(f)
  /\ UNCHANGED <<key_shares, nextFileId, plain, rotated, cu, ss, sharevars,
                 secure_notes, uploadPage, pagevars>>

\* FileService.regenerateFileKey(fileId, oldKey, userId) with an old key the
\* caller holds
RegenDecrypt(c) == RegenStart(c, KnownKeys(draws), "service")

\* Files.handleRegenerateKey: the old key handed to regenerateFileKey is one
\* CryptoUtils.generateKey has just made
HandleRegenerateKey(c) == RegenStart(c, {draws + 1}, "page")

\* RegenUpdate writing the version it read, not the next one
RegenUpdate_sameVersion(c) ==
  /\ regen[c].pc = "update"
  /\ \E f \in FaultChoices(2) :
       /\ IF f[1] THEN
            /\ regen' = [regen EXCEPT ![c].pc = "failed", ![c].stepFailed = TRUE]
            /\ activity_logs' = Logged(activity_logs, "key_regen", "failed", f[2])
            /\ audit' = Audited("key_regen", TRUE, TRUE, TRUE,
                                 regen[c].noted.logFault \/ f[2])
            /\ UNCHANGED encrypted_files
          ELSE
            LET id == regen[c].fileId
                newEncryption == regen[c].newEncryption
            IN /\ ~f[2]
               /\ encrypted_files' =
                    IF id \in DOMAIN encrypted_files
                      THEN [encrypted_files EXCEPT
                              ![id].encrypted_data = newEncryption.encryptedData,
                              ![id].iv = newEncryption.iv,
                              ![id].auth_tag = newEncryption.authTag,
                              ![id].key_rotation_date = Timestamp,
                              ![id].version = regen[c].file.version]
                      ELSE encrypted_files
               /\ regen' = [regen EXCEPT ![c].pc = "deleteShares"]
               /\ UNCHANGED <<activity_logs, audit>>
       /\ faults' = faults + FaultCount(f)
  /\ UNCHANGED <<key_shares, nextFileId, draws, plain, rotated, cu, ss, sharevars,
                 secure_notes, uploadPage, pagevars>>

\* supabase.from('encrypted_files').update({...}).eq('id', fileId).
\* Persistence calls: 1 the update, 2 the log insert of the catch block.
RegenUpdate(c) ==
  /\ regen[c].pc = "update"
  /\ \E f \in FaultChoices(2) :
       /\ IF f[1] THEN
            /\ regen' = [regen EXCEPT ![c].pc = "failed", ![c].stepFailed = TRUE]
            /\ activity_logs' = Logged(activity_logs, "key_regen", "failed", f[2])
            /\ audit' = Audited("key_regen", TRUE, TRUE, TRUE,
                                 regen[c].noted.logFault \/ f[2])
            /\ UNCHANGED encrypted_files
          ELSE
            LET id == regen[c].fileId
                newEncryption == regen[c].newEncryption
            IN /\ ~f[2]
               /\ encrypted_files' =
                    IF id \in DOMAIN encrypted_files
                      THEN [encrypted_files EXCEPT
                              ![id].encrypted_data = newEncryption.encryptedData,
                              ![id].iv = newEncryption.iv,
                              ![id].auth_tag = newEncryption.authTag,
                              ![id].key_rotation_date = Timestamp,
                              ![id].version = regen[c].file.version + 1]
                      ELSE encrypted_files
               /\ regen' = [regen EXCEPT ![c].pc = "deleteShares"]
               /\ UNCHANGED <<activity_logs, audit>>
       /\ faults' = faults + FaultCount(f)
  /\ UNCHANGED <<key_shares, nextFileId, draws, plain, rotated, cu, ss, sharevars,
                 secure_notes, uploadPage, pagevars>>

\* supabase.from('key_shares').delete().eq('file_id', fileId): the returned
\* error is not read.  Persistence calls: 1 the delete.
RegenDeleteShares(c) ==
  /\ regen[c].pc = "deleteShares"
  /\ \E f \in FaultChoices(1) :
       /\ key_shares' = IF f[1] THEN key_shares
                        ELSE {r \in key_shares : r.file_id # regen[c].fileId}
       /\ regen' = [regen EXCEPT ![c].pc = "insertShares", ![c].i = 1,
                                 ![c].stepFailed = regen[c].stepFailed \/ f[1]]
       /\ faults' = faults + FaultCount(f)
  /\ UNCHANGED <<encrypted_files, activity_logs, nextFileId, draws, plain,
                 rotated, cu, ss, sharevars, appvars>>

\* one round of the insert loop; after the third, log 'key_regen' success
\* and return.  Persistence calls: 1 the insert, 2 the log insert.
RegenInsertShare(c) ==
  /\ regen[c].pc = "insertShares"
  /\ \E f \in FaultChoices(2) :
       LET i == regen[c].i
           id == regen[c].fileId
           row == ShareRow(id, regen[c].shares[i])
           after == InsertShare(encrypted_files, key_shares, row, f[1])
       IN /\ key_shares' = after
          /\ regen' = [regen EXCEPT ![c].i = i + 1,
                                    ![c].pc = IF i = 3 THEN "done" ELSE "insertShares",
                                    ![c].stepFailed = regen[c].stepFailed \/ (row \notin after)]
          /\ IF i = 3
               THEN /\ activity_logs' = Logged(activity_logs, "key_regen", "success", f[2])
                    /\ audit' = Audited("key_regen",
                                         regen[c].noted.failed \/ regen[c].stepFailed
                                           \/ (row \notin after),
                                         FALSE, FALSE, regen[c].noted.logFault \/ f[2])
                    /\ rotated' = IF id \in DOMAIN rotated
                                    THEN [rotated EXCEPT ![id] = rotated[id] + 1]
                                    ELSE rotated
               ELSE /\ ~f[2]
                    /\ UNCHANGED <<activity_logs, rotated, audit>>
          /\ faults' = faults + FaultCount(f)
  /\ UNCHANGED <<encrypted_files, nextFileId, draws, plain, cu, ss, sharevars,
                 secure_notes, uploadPage, pagevars>>

\* Clients are interchangeable: the second one is taken only for a call made
\* while the first has a call in progress.
Scheduled(c) == c # "c1" => ~Returned("c1")

\* regenerateFileKey called by any client at any time
RegenCall(c) ==
  /\ Scheduled(c)
  /\ RegenDecrypt(c)

\* regenerateFileKey called while no other call of it is in progress
RegenCallAlone(c) ==
  /\ \A d \in Clients : Returned(d)
  /\ Scheduled(c)
  /\ RegenDecrypt(c)

(***************************************************************************)
(* ShareService.  An access request is getShareByToken, validateShareAccess *)
(* and, when that returned true, incrementViewCount, one step per awaited   *)
(* persistence call.                                                        *)
(***************************************************************************)
MaxLinks == 1
MaxTicks == 2
MaxCount == 2

LinkIds == 1..MaxLinks

\* "p" and "q"
Passwords == {<<112>>, <<113>>}

NoLink == [id |-> 0]

ViewerIdle ==
  [pc |-> "idle", via |-> "none", link |-> NoLink, password |-> Nil, ok |-> FALSE,
   at |-> 0, afterView |-> FALSE, share |-> NoLink, newViewCount |-> 0]

\* ShareService.createShareLink.  Persistence calls: 1 the insert, 2 the log
\* insert.
CreateShareLink ==
  /\ nextShareId <= MaxLinks
  /\ \E fileId \in FileIds, password \in {Nil, Some(<<>>), Some(<<112>>)},
        expiryHours \in {Nil, Some(0), Some(1)}, oneTimeView \in BOOLEAN,
        maxViews \in {Nil, Some(0), Some(1), Some(2)}, f \in FaultChoices(2) :
       LET token == generateRandomToken(TokenBytes, nextShareId)
           expiresAt == IF TruthyNumber(expiryHours)
                          THEN Some(now + expiryHours[1] * HourMs) ELSE Nil
           passwordHash == IF TruthyString(password)
                             THEN Some(hashPassword(password[1])) ELSE Nil
           shareData ==
             [id |-> nextShareId,
              file_id |-> fileId,
              user_id |-> UserId,
              token |-> token,
              password_hash |-> passwordHash,
              expires_at |-> expiresAt,
              one_time_view |-> oneTimeView,
              max_views |-> IF TruthyNumber(maxViews) THEN maxViews ELSE Nil,
              view_count |-> 0,
              is_active |-> TRUE]
           rejected ==
             \/ f[1]
             \/ fileId \notin DOMAIN encrypted_files
             \/ \E l \in DOMAIN share_links : share_links[l].token = token
       IN /\ IF rejected THEN
               /\ activity_logs' = Logged(activity_logs, "share_create", "failed", f[2])
               /\ audit' = Audited("share_create", TRUE, TRUE, TRUE, f[2])
               /\ UNCHANGED <<share_links, nextShareId, viewed>>
             ELSE
               /\ share_links' = (nextShareId :> shareData) @@ share_links
               /\ nextShareId' = nextShareId + 1
               /\ viewed' = (nextShareId :> 0) @@ viewed
               /\ activity_logs' = Logged(activity_logs, "share_create", "success", f[2])
               /\ audit' = Audited("share_create", FALSE, FALSE, FALSE, f[2])
          /\ faults' = faults + FaultCount(f)
  /\ UNCHANGED <<pagevars, secure_notes, uploadPage, encrypted_files, key_shares, nextFileId, draws, plain, regen, rotated,
                 cu, ss, now, viewer>>

\* time passes
Tick ==
  /\ now < MaxTicks * HourMs
  /\ now' = now + HourMs
  /\ UNCHANGED <<appvars, sysvars, cu, ss, share_links, nextShareId, viewer, viewed>>

\* Clients are interchangeable: the second one makes a request only while the
\* first has one in progress.
Requesting(c) == c # "c1" => viewer["c1"].pc \notin {"idle", "validated"}

\* the caller gets hold of a link: ShareService.getShareByToken (active links
\* only) or ShareService.getUserShares (the owner's list, every link); a
\* select that comes back with an error throws and leaves the caller
\* without a link.
GetShare(c) ==
  /\ viewer[c].pc \in {"idle", "validated"}
  /\ Requesting(c)
  /\ \E id \in DOMAIN share_links, via \in {"getShareByToken", "getUserShares"} :
       /\ via = "getShareByToken" => share_links[id].is_active
       /\ viewer' = [viewer EXCEPT ![c] =
            [ViewerIdle EXCEPT !.pc = "fetched", !.via = via, !.link = share_links[id]]]
  /\ UNCHANGED <<appvars, sysvars, cu, ss, share_links, nextShareId, now, viewed>>

\* a request made while no other one is in progress
GetShareAlone(c) ==
  /\ \A d \in Clients : viewer[d].pc \in {"idle", "validated"}
  /\ GetShare(c)

\* ShareService.validateShareAccess on the link the caller holds
ValidateShareAccess(c) ==
  /\ viewer[c].pc \in {"fetched", "validated"}
  /\ \E password \in {Nil, Some(<<>>)} \cup {Some(pw) : pw \in Passwords} :
       viewer' = [viewer EXCEPT ![c].pc = "validated", ![c].password = password,
                    ![c].at = now,
                    ![c].afterView = (viewer[c].link.id \in DOMAIN viewed
                                      /\ viewed[viewer[c].link.id] > 0),
                    ![c].ok = validateShareAccess(viewer[c].link, password, now)]
  /\ UNCHANGED <<appvars, sysvars, cu, ss, share_links, nextShareId, now, viewed>>

\* ShareService.incrementViewCount(link.id) of a request that came by the
\* token and passed validateShareAccess: the select.  Persistence calls:
\* 1 the select; with an error data is null and the call returns.
IncRead(c) ==
  /\ viewer[c].pc = "validated"
  /\ viewer[c].ok
  /\ viewer[c].via = "getShareByToken"
  /\ \E f \in FaultChoices(1) :
       LET shareId == viewer[c].link.id
       IN /\ IF f[1] \/ shareId \notin DOMAIN share_links THEN
               viewer' = [viewer EXCEPT ![c] = ViewerIdle]
             ELSE
               /\ share_links[shareId].view_count < MaxCount
               /\ viewer' = [viewer EXCEPT
                    ![c].pc = "updateCount",
                    ![c].share = share_links[shareId],
                    ![c].newViewCount = share_links[shareId].view_count + 1]
          /\ faults' = faults + FaultCount(f)
  /\ UNCHANGED <<appvars, encrypted_files, key_shares, activity_logs, nextFileId, draws, plain,
                 regen, rotated, cu, ss, share_links, nextShareId, now, viewed>>

\* update({ view_count: newViewCount }).eq('id', shareId): the returned error
\* is not read.  Persistence calls: 1 the update.
IncUpdateCount(c) ==
  /\ viewer[c].pc = "updateCount"
  /\ \E f \in FaultChoices(1) :
       LET shareId == viewer[c].share.id
       IN /\ share_links' =
               IF f[1] \/ shareId \notin DOMAIN share_links THEN share_links
               ELSE [share_links EXCEPT ![shareId].view_count = viewer[c].newViewCount]
          /\ viewer' = [viewer EXCEPT ![c].pc = "deactivate"]
          /\ faults' = faults + FaultCount(f)
  /\ UNCHANGED <<appvars, encrypted_files, key_shares, activity_logs, nextFileId, draws, plain,
                 regen, rotated, cu, ss, nextShareId, now, viewed>>

\* the rest of incrementViewCount: update({ is_active: false }) for a
\* one-time link or one that has reached max_views (the returned error is
\* not read), then the 'share_access' log.  Persistence calls: 1 the update,
\* 2 the log insert.
IncDeactivate(c) ==
  /\ viewer[c].pc = "deactivate"
  /\ \E f \in FaultChoices(2) :
       LET share == viewer[c].share
           last == share.one_time_view
                   \/ (TruthyNumber(share.max_views)
                       /\ viewer[c].newViewCount >= share.max_views[1])
       IN /\ ~last => ~f[1]
          /\ share_links' =
               IF last /\ ~f[1] /\ share.id \in DOMAIN share_links
                 THEN [share_links EXCEPT ![share.id].is_active = FALSE]
                 ELSE share_links
          /\ activity_logs' = Logged(activity_logs, "share_access", "success", f[2])
          /\ viewed' = [viewed EXCEPT ![share.id] = viewed[share.id] + 1]
          /\ viewer' = [viewer EXCEPT ![c] = ViewerIdle]
          /\ faults' = faults + FaultCount(f)
  /\ UNCHANGED <<appvars, encrypted_files, key_shares, nextFileId, draws, plain, regen, rotated,
                 cu, ss, nextShareId, now>>

\* ShareService.revokeShare with is_active written as its negation
RevokeShare_toggle ==
  /\ \E shareId \in LinkIds, f \in FaultChoices(1) :
       /\ share_links' =
            IF f[1] \/ shareId \notin DOMAIN share_links THEN share_links
            ELSE [share_links EXCEPT ![shareId].is_active = ~share_links[shareId].is_active]
       /\ faults' = faults + FaultCount(f)
  /\ UNCHANGED <<appvars, encrypted_files, key_shares, activity_logs, nextFileId, draws, plain,
                 regen, rotated, cu, ss, nextShareId, now, viewer, viewed>>

\* ShareService.revokeShare.  Persistence calls: 1 the update.
RevokeShare ==
  /\ \E shareId \in LinkIds, f \in FaultChoices(1) :
       /\ share_links' =
            IF f[1] \/ shareId \notin DOMAIN share_links THEN share_links
            ELSE [share_links EXCEPT ![shareId].is_active = FALSE]
       /\ faults' = faults + FaultCount(f)
  /\ UNCHANGED <<appvars, encrypted_files, key_shares, activity_logs, nextFileId, draws, plain,
                 regen, rotated, cu, ss, nextShareId, now, viewer, viewed>>

\* ShareService.deleteShare.  Persistence calls: 1 the delete.
DeleteShare ==
  /\ \E shareId \in LinkIds, f \in FaultChoices(1) :
       /\ share_links' =
            IF f[1] THEN share_links
            ELSE Restrict(share_links, DOMAIN share_links \ {shareId})
       /\ faults' = faults + FaultCount(f)
  /\ UNCHANGED <<appvars, encrypted_files, key_shares, activity_logs, nextFileId, draws, plain,
                 regen, rotated, cu, ss, nextShareId, now, viewer, viewed>>

(***************************************************************************)
(* Specifications.                                                         *)
(***************************************************************************)
(***************************************************************************)
(* AuthContext.signIn against the profiles table and its row level         *)
(* security: a profile row is visible to, and can be updated by, the       *)
(* authenticated owner only; a client without a session reads no row.      *)
(***************************************************************************)
MaxAttempts == 6

\* if (attempts >= 5)
LockThreshold == 5

\* Date.now() + 15 * 60 * 1000
LockMs == 15 * 60 * 1000

\* session is the user the client is authenticated as; login_attempts and
\* locked_until are the columns of the profile row; failures counts the
\* signIn calls that failed since the last one that succeeded and fifthAt is
\* the time the fifth of them failed; due, attempted and outcome describe the
\* signIn call that ended last
AuthIdle ==
  [pc |-> "on", session |-> "none", login_attempts |-> 0, locked_until |-> Nil,
   failures |-> 0, fifthAt |-> Nil, due |-> FALSE, attempted |-> FALSE,
   outcome |-> "none"]

\* supabase.from('profiles').select('*').eq('email', email).maybeSingle()
\* as the policies "Users can view own profile" answer it
SelectProfile(fails) ==
  IF fails \/ auth.session # UserId THEN Nil
  ELSE Some([login_attempts |-> auth.login_attempts, locked_until |-> auth.locked_until])

\* AuthContext.signIn with the right password (good) or a wrong one.
\* Persistence calls: 1 the profile select, 2 the profile update, 3 the log
\* insert.
SignIn ==
  /\ auth # AuthOff
  /\ \E good \in BOOLEAN, f \in FaultChoices(3) :
       LET profile == SelectProfile(f[1])
           due == auth.fifthAt # Nil /\ now < auth.fifthAt[1] + LockMs
           locked == /\ profile # Nil
                     /\ profile[1].locked_until # Nil
                     /\ profile[1].locked_until[1] > now
       IN /\ good \/ auth.failures < MaxAttempts
          /\ IF locked THEN
               /\ ~f[2] /\ ~f[3]
               /\ auth' = [auth EXCEPT !.due = due, !.attempted = FALSE,
                                       !.outcome = "locked"]
               /\ UNCHANGED activity_logs
             ELSE IF ~good THEN
               LET attempts == profile[1].login_attempts + 1
                   failures == auth.failures + 1
                   history == [auth EXCEPT
                                 !.due = due, !.attempted = TRUE, !.outcome = "failed",
                                 !.failures = failures,
                                 !.fifthAt = IF failures = LockThreshold
                                               THEN Some(now) ELSE @]
               IN /\ profile = Nil => ~f[2]
                  /\ auth' =
                       IF profile = Nil \/ f[2] THEN history
                       ELSE [history EXCEPT
                               !.login_attempts = attempts,
                               !.locked_until = IF attempts >= LockThreshold
                                                  THEN Some(now + LockMs) ELSE @]
                  /\ activity_logs' = Logged(activity_logs, "failed_login", "failed", f[3])
             ELSE
               LET history == [auth EXCEPT
                                 !.due = due, !.attempted = TRUE, !.outcome = "ok",
                                 !.failures = 0, !.fifthAt = Nil, !.session = UserId]
               IN /\ profile = Nil => ~f[2] /\ ~f[3]
                  /\ auth' =
                       IF profile = Nil \/ f[2] THEN history
                       ELSE [history EXCEPT !.login_attempts = 0, !.locked_until = Nil]
                  /\ activity_logs' =
                       IF profile = Nil THEN activity_logs
                       ELSE Logged(activity_logs, "login", "success", f[3])
          /\ faults' = faults + FaultCount(f)
  /\ UNCHANGED <<encrypted_files, key_shares, nextFileId, draws, plain, regen, rotated,
                 cu, ss, sharevars, secure_notes, uploadPage, audit, notesPage>>

\* AuthContext.signOut.  Persistence calls: 1 the log insert.
SignOut ==
  /\ auth # AuthOff
  /\ auth.session # "none"
  /\ \E f \in FaultChoices(1) :
       /\ activity_logs' = Logged(activity_logs, "logout", "success", f[1])
       /\ faults' = faults + FaultCount(f)
  /\ auth' = [auth EXCEPT !.session = "none"]
  /\ UNCHANGED <<encrypted_files, key_shares, nextFileId, draws, plain, regen, rotated,
                 cu, ss, sharevars, secure_notes, uploadPage, audit, notesPage>>

SysInit ==
  /\ encrypted_files = << >>
  /\ key_shares = {}
  /\ activity_logs = NoLog
  /\ nextFileId = 1
  /\ draws = 0
  /\ faults = 0
  /\ plain = << >>
  /\ rotated = << >>
  /\ regen = [c \in Clients |-> RegenIdle]
  /\ share_links = << >>
  /\ nextShareId = 1
  /\ now = 0
  /\ viewer = [c \in Clients |-> ViewerIdle]
  /\ viewed = << >>
  /\ secure_notes = << >>

\* neither the Upload page nor the audit is looked at
AppOff == uploadPage = PageOff /\ audit = AuditOff /\ PagesOff

Init == SysInit /\ CuIdle /\ SsIdle /\ AppOff

(***************************************************************************)
(* NoteService.  The key is the one the Notes page made when it was        *)
(* mounted, so a note of an earlier visit meets another key.               *)
(***************************************************************************)
NoteIds == 1..MaxNotes

\* "h\u00e9"
NoteContents == {<<104, 233>>}

NoteTitles == {"todo"}

\* the keys the Notes page gets from generateKey, one each time it is mounted
NoteKeys == 1..MaxNoteKeys

\* encryptData(content, key k) with the IV of draw iv
NoteEncryptTable ==
  Table([x \in NoteContents \X NoteKeys \X (1..MaxIvs) |->
           encryptData(StringData(x[1]), KeyOf[x[2]], IvOf(x[3]))])

\* decryptToString(e.encryptedData, e.iv, e.authTag, key k)
NoteDecryptTable ==
  Table([x \in {NoteEncryptTable[y] : y \in DOMAIN NoteEncryptTable} \X NoteKeys |->
           decryptToString(x[1].encryptedData, x[1].iv, x[1].authTag, KeyOf[x[2]])])

\* NoteService.createNote.  Persistence calls: 1 the insert, 2 the log insert.
CreateNoteWith(keys) ==
  /\ \E title \in NoteTitles, content \in NoteContents, k \in keys,
        iv \in 1..MaxIvs, f \in FaultChoices(2) :
       LET encryptionResult == NoteEncryptTable[<<content, k, iv>>]
           id == Cardinality(DOMAIN secure_notes) + 1
           noteData == [user_id |-> UserId,
                        title |-> title,
                        encrypted_content |-> encryptionResult.encryptedData,
                        iv |-> encryptionResult.iv,
                        auth_tag |-> encryptionResult.authTag]
       IN /\ id \in NoteIds
          /\ IF f[1] THEN
               /\ activity_logs' = Logged(activity_logs, "note_create", "failed", f[2])
               /\ audit' = Audited("note_create", TRUE, TRUE, TRUE, f[2])
               /\ UNCHANGED secure_notes
             ELSE
               /\ secure_notes' = (id :> noteData) @@ secure_notes
               /\ activity_logs' = Logged(activity_logs, "note_create", "success", f[2])
               /\ audit' = Audited("note_create", FALSE, FALSE, FALSE, f[2])
          /\ faults' = faults + FaultCount(f)
  /\ UNCHANGED <<encrypted_files, key_shares, nextFileId, draws, plain, regen, rotated,
                 cu, ss, sharevars, uploadPage, pagevars>>

\* NoteService.decryptNote on a stored note.  Persistence calls: 1 the log
\* insert.
DecryptNoteWith(keys) ==
  /\ \E id \in DOMAIN secure_notes, k \in keys, f \in FaultChoices(1) :
       LET note == secure_notes[id]
           decrypted ==
             NoteDecryptTable[<<[encryptedData |-> note.encrypted_content,
                                 iv |-> note.iv, authTag |-> note.auth_tag], k>>]
       IN /\ IF decrypted.ok THEN
               /\ activity_logs' = Logged(activity_logs, "note_decrypt", "success", f[1])
               /\ audit' = Audited("note_decrypt", FALSE, FALSE, FALSE, f[1])
             ELSE
               /\ activity_logs' = Logged(activity_logs, "note_decrypt", "failed", f[1])
               /\ audit' = Audited("note_decrypt", TRUE, TRUE, TRUE, f[1])
          /\ faults' = faults + FaultCount(f)
  /\ UNCHANGED <<encrypted_files, key_shares, nextFileId, draws, plain, regen, rotated,
                 cu, ss, sharevars, secure_notes, uploadPage, pagevars>>

\* NoteService.updateNote: no try block and no log call.  Persistence calls:
\* 1 the update.
UpdateNoteWith(keys) ==
  /\ \E noteId \in NoteIds, title \in NoteTitles, content \in NoteContents,
        k \in keys, iv \in 1..MaxIvs, f \in FaultChoices(1) :
       LET encryptionResult == NoteEncryptTable[<<content, k, iv>>]
       IN /\ IF f[1] THEN
               /\ audit' = Audited("note_update", TRUE, TRUE, FALSE, FALSE)
               /\ UNCHANGED secure_notes
             ELSE
               /\ secure_notes' =
                    IF noteId \in DOMAIN secure_notes
                      THEN [secure_notes EXCEPT
                              ![noteId].title = title,
                              ![noteId].encrypted_content = encryptionResult.encryptedData,
                              ![noteId].iv = encryptionResult.iv,
                              ![noteId].auth_tag = encryptionResult.authTag]
                      ELSE secure_notes
               /\ audit' = Audited("note_update", FALSE, FALSE, FALSE, FALSE)
          /\ faults' = faults + FaultCount(f)
  /\ UNCHANGED <<encrypted_files, key_shares, activity_logs, nextFileId, draws, plain,
                 regen, rotated, cu, ss, sharevars, uploadPage, pagevars>>

\* the note service called with any key
CreateNote == CreateNoteWith(NoteKeys)

DecryptNote == DecryptNoteWith(NoteKeys)

UpdateNote == UpdateNoteWith(NoteKeys)

\* the Notes page: mounts counts the times it has been mounted,
\* encryptionKey is the key of its state
NotesPageIdle == [pc |-> "closed", encryptionKey |-> 0, mounts |-> 0]

\* Notes is mounted (opened, reloaded or revisited): initializeEncryption
\* puts a key fresh from CryptoUtils.generateKey into the page's state
NotesMount ==
  /\ notesPage # NotesPageOff
  /\ notesPage.pc = "closed"
  /\ notesPage.mounts < MaxNoteKeys
  /\ notesPage' = [pc |-> "mounted", encryptionKey |-> notesPage.mounts + 1,
                   mounts |-> notesPage.mounts + 1]
  /\ UNCHANGED <<sysvars, cu, ss, sharevars, secure_notes, uploadPage, audit, auth>>

\* the page is left or reloaded: its state, the key included, is gone
NotesUnmount ==
  /\ notesPage # NotesPageOff
  /\ notesPage.pc = "mounted"
  /\ notesPage' = [notesPage EXCEPT !.pc = "closed", !.encryptionKey = 0]
  /\ UNCHANGED <<sysvars, cu, ss, sharevars, secure_notes, uploadPage, audit, auth>>

\* Notes.handleCreateNote
HandleCreateNote ==
  /\ notesPage # NotesPageOff
  /\ notesPage.pc = "mounted"
  /\ CreateNoteWith({notesPage.encryptionKey})

\* Notes.handleViewNote
HandleViewNote ==
  /\ notesPage # NotesPageOff
  /\ notesPage.pc = "mounted"
  /\ DecryptNoteWith({notesPage.encryptionKey})

\* Notes.handleUpdateNote
HandleUpdateNote ==
  /\ notesPage # NotesPageOff
  /\ notesPage.pc = "mounted"
  /\ UpdateNoteWith({notesPage.encryptionKey})

\* the audit is looked at, the Upload page is not
InitWorkflow ==
  SysInit /\ CuIdle /\ SsIdle /\ uploadPage = PageOff /\ audit = AuditIdle /\ PagesOff

\* the workflow calls of the file and note services, one at a time
NextWorkflow ==
  \/ UploadEncryptedFile
  \/ DecryptFile
  \/ DeleteFile
  \/ RestoreFile
  \/ RegenCallAlone("c1")
  \/ RegenUpdate("c1")
  \/ RegenDeleteShares("c1")
  \/ RegenInsertShare("c1")
  \/ CreateNote
  \/ DecryptNote
  \/ UpdateNote

SpecWorkflow == InitWorkflow /\ [][NextWorkflow]_vars

\* the calls that write to the activity log on their way: upload, decrypt,
\* key rotation and share creation, one at a time
NextLogging ==
  \/ UploadEncryptedFile
  \/ DecryptFile
  \/ RegenCallAlone("c1")
  \/ RegenUpdate("c1")
  \/ RegenDeleteShares("c1")
  \/ RegenInsertShare("c1")
  \/ CreateShareLink

SpecLogging == InitWorkflow /\ [][NextLogging]_vars

\* the Notes page and the audit are looked at
InitNotes ==
  /\ SysInit /\ CuIdle /\ SsIdle /\ uploadPage = PageOff /\ audit = AuditIdle
  /\ auth = AuthOff /\ notesPage = NotesPageIdle

NextNotes ==
  \/ NotesMount
  \/ NotesUnmount
  \/ HandleCreateNote
  \/ HandleViewNote
  \/ HandleUpdateNote

SpecNotes == InitNotes /\ [][NextNotes]_vars

\* sign-in is looked at
InitAuth ==
  /\ SysInit /\ CuIdle /\ SsIdle /\ uploadPage = PageOff /\ audit = AuditOff
  /\ auth = AuthIdle /\ notesPage = NotesPageOff

NextAuth ==
  \/ SignIn
  \/ SignOut
  \/ Tick

SpecAuth == InitAuth /\ [][NextAuth]_vars

\* the Upload page is looked at, the audit is not
InitPages ==
  SysInit /\ CuIdle /\ SsIdle /\ uploadPage = PageIdle /\ audit = AuditOff /\ PagesOff

\* the Upload page and the Files page's Rotate Key, Delete and Restore
NextPages ==
  \/ HandleUploadStart
  \/ UploadEncryptedFile
  \/ HandleUploadFinish
  \/ HandleRegenerateKey("c1")
  \/ DeleteFile
  \/ RestoreFile

SpecPages == InitPages /\ [][NextPages]_vars

\* the file service, one regenerateFileKey call at a time
Next ==
  \/ UploadEncryptedFile
  \/ DecryptFile
  \/ DeleteFile
  \/ RestoreFile
  \/ PermanentlyDeleteFile
  \/ \E c \in Clients : RegenCallAlone(c)
  \/ \E c \in Clients : RegenUpdate(c)
  \/ \E c \in Clients : RegenDeleteShares(c)
  \/ \E c \in Clients : RegenInsertShare(c)

Spec == Init /\ [][Next]_vars

\* the file service with regenerateFileKey calls of two clients in progress
\* at the same time
NextConcurrent ==
  \/ UploadEncryptedFile
  \/ DecryptFile
  \/ DeleteFile
  \/ RestoreFile
  \/ PermanentlyDeleteFile
  \/ \E c \in Clients : RegenCall(c)
  \/ \E c \in Clients : RegenUpdate(c)
  \/ \E c \in Clients : RegenDeleteShares(c)
  \/ \E c \in Clients : RegenInsertShare(c)

SpecConcurrent == Init /\ [][NextConcurrent]_vars

\* CryptoUtils.encryptData / decryptData on their own
InitCrypto == SysInit /\ CuInit /\ SsIdle /\ AppOff

NextCrypto ==
  \/ CuEncrypt
  \/ CuFlip
  \/ CuDecrypt
  \/ CuMalform
  \/ CuImport

SpecCrypto == InitCrypto /\ [][NextCrypto]_vars

\* CryptoUtils.splitSecretShamir / reconstructSecretShamir on their own
InitSplit == SysInit /\ CuIdle /\ SsInit /\ AppOff

NextSplit ==
  \/ SsSplit
  \/ SsReconstruct

SpecSplit == InitSplit /\ [][NextSplit]_vars

\* the share service, one access request at a time
NextShare ==
  \/ UploadEncryptedFile
  \/ CreateShareLink
  \/ Tick
  \/ \E c \in Clients : GetShareAlone(c)
  \/ \E c \in Clients : ValidateShareAccess(c)
  \/ \E c \in Clients : IncRead(c)
  \/ \E c \in Clients : IncUpdateCount(c)
  \/ \E c \in Clients : IncDeactivate(c)
  \/ RevokeShare
  \/ DeleteShare

SpecShare == Init /\ [][NextShare]_vars

\* access requests of two clients in progress at the same time
NextShareConcurrent ==
  \/ UploadEncryptedFile
  \/ CreateShareLink
  \/ \E c \in Clients : GetShare(c)
  \/ \E c \in Clients : ValidateShareAccess(c)
  \/ \E c \in Clients : IncRead(c)
  \/ \E c \in Clients : IncUpdateCount(c)
  \/ \E c \in Clients : IncDeactivate(c)

SpecShareConcurrent == Init /\ [][NextShareConcurrent]_vars

(***************************************************************************)
(* Properties of the cipher engine.                                        *)
(***************************************************************************)
\* C1: decryptData with the key k of the triple encryptData(b, k) returned
\* gives back exactly the bytes b.
RoundTrip ==
  (cu.pc = "decrypted" /\ cu.flipped = "no" /\ cu.usedKey = cu.key)
    => cu.out = Ok(PayloadBytes(cu.data))

RoundTripWitness ==
  /\ cu.pc = "decrypted" /\ cu.flipped = "no" /\ cu.usedKey = cu.key
  /\ cu.out.ok /\ cu.out.val = HelloWorld

\* C9: with one bit of the ciphertext, IV or auth tag inverted, decryptData
\* with the original key fails with the decryption error.
TamperDetected ==
  (cu.pc = "decrypted" /\ cu.flipped \in {"encryptedData", "iv", "authTag"}
     /\ cu.usedKey = cu.key)
    => cu.out = Err(DecryptionFailed)

TamperDetectedWitness ==
  /\ cu.pc = "decrypted" /\ cu.flipped = "iv" /\ cu.usedKey = cu.key
  /\ Len(PayloadBytes(cu.data)) > 0
  /\ ~cu.out.ok

\* C10: decryptData of encryptData(b, k1) with a key k2 # k1 fails with the
\* decryption error.
WrongKeyRejected ==
  (cu.pc = "decrypted" /\ cu.flipped = "no" /\ cu.usedKey # cu.key)
    => cu.out = Err(DecryptionFailed)

WrongKeyRejectedWitness ==
  /\ cu.pc = "decrypted" /\ cu.flipped = "no" /\ cu.usedKey # cu.key
  /\ Len(PayloadBytes(cu.data)) > 0
  /\ ~cu.out.ok

\* C15: importKey returns a key for a key string of exactly 32 bytes and
\* fails for a key string of any other length.
ImportKeyOnly32Bytes ==
  cu.pc = "imported" => (cu.out.ok <=> FieldLen(cu.keyString) = KeyBytes)

\* C16: whatever makes decryptData fail (tag mismatch, wrong key, a stored
\* field that is no base64), the error is the one decryption error.
OneDecryptionError ==
  (cu.pc = "decrypted" /\ ~cu.out.ok) => cu.out = Err(DecryptionFailed)

(***************************************************************************)
(* Properties of the secret splitter.                                      *)
(***************************************************************************)
\* C5: reconstructSecretShamir applied to any two distinct shares of
\* splitSecretShamir(s) returns s.
AnyTwoSharesReconstruct ==
  ss.pc = "reconstructed" => ss.out = Ok(ss.secret)

\* C6: reconstructSecretShamir applied to the user_share and the
\* recovery_share of splitSecretShamir(s) returns s.
UserRecoveryReconstruct ==
  (ss.pc = "reconstructed" /\ ss.a = 1 /\ ss.b = 2) => ss.out = Ok(ss.secret)

(***************************************************************************)
(* Properties of key rotation.                                             *)
(***************************************************************************)
DecryptRow(row, k) ==
  decryptData(row.encrypted_data, row.iv, row.auth_tag, generateKey(k))

\* C2: when regenerateFileKey has returned normally, the stored record no
\* longer decrypts with the old key, it decrypts with the new key to the
\* plaintext the record had before, and its version is the version before
\* plus 1.
RotationResult ==
  \A c \in Clients :
    (regen[c].pc = "done" /\ regen[c].fileId \in DOMAIN encrypted_files) =>
      LET r == regen[c]
          row == encrypted_files[r.fileId]
          before == DecryptRow(r.file, r.oldKey)
      IN /\ before.ok
         /\ before.val = plain[r.fileId]
         /\ ~DecryptRow(row, r.oldKey).ok
         /\ DecryptRow(row, r.n) = before
         /\ row.version = r.file.version + 1

RotationResultWitness ==
  \E c \in Clients :
    /\ regen[c].pc = "done"
    /\ regen[c].fileId \in DOMAIN encrypted_files
    /\ regen[c].file.version = 2
    /\ encrypted_files[regen[c].fileId].version = 3
    /\ DecryptRow(encrypted_files[regen[c].fileId], regen[c].n).ok

\* the cryptographic state of a file record
Sealed(row) ==
  IF row = NoFile THEN NoFile
  ELSE [encrypted_data |-> row.encrypted_data, iv |-> row.iv, auth_tag |-> row.auth_tag,
        version |-> row.version]

\* C3: once a step of regenerateFileKey has failed, the file is stored as it
\* was before the call: the old ciphertext, IV, auth tag and version, and the
\* old key shares.
RotationFailureKeepsState ==
  \A c \in Clients :
    (regen[c].stepFailed /\ regen[c].file # NoFile
       /\ regen[c].fileId \in DOMAIN encrypted_files) =>
      /\ Sealed(encrypted_files[regen[c].fileId]) = Sealed(regen[c].file)
      /\ SharesOf(regen[c].fileId) = regen[c].preShares

\* the key shares stored for id are the three shares of one key, and that key
\* decrypts the stored ciphertext
SharesMatchCiphertext(id) ==
  \E n \in KeyIds :
    /\ SharesOf(id) = {ShareRow(id, SharesTable[n][i]) : i \in 1..3}
    /\ DecryptRow(encrypted_files[id], n).ok

\* C4: when two regenerateFileKey calls on a file have been in progress at
\* the same time and both have returned, the version has gone up once per
\* call that returned normally, and the stored ciphertext and key shares
\* are those of one rotation.
ConcurrentRotationsSerialized ==
  \A id \in DOMAIN encrypted_files :
    ((\A c \in Clients : Returned(c)) /\ faults = 0) =>
      /\ encrypted_files[id].version = 1 + rotated[id]
      /\ SharesMatchCiphertext(id)

(***************************************************************************)
(* Properties of what the persistence backend holds.                       *)
(***************************************************************************)
ShareBytes(id, type) ==
  LET row == CHOOSE r \in SharesOf(id) : r.share_type = type
  IN base64ToArrayBuffer(row.encrypted_share).val

\* from the rows stored for id alone: XOR the three stored shares, read the
\* result as the exported key and decrypt the stored ciphertext with it
BackendDecrypts(id) ==
  /\ \A type \in {"user_share", "recovery_share", "device_share"} :
       \E r \in SharesOf(id) : r.share_type = type
  /\ LET bytes == XorBytes(XorBytes(ShareBytes(id, "user_share"),
                                    ShareBytes(id, "recovery_share")),
                           ShareBytes(id, "device_share"))
         key == importKey(TextDecode(bytes))
         row == encrypted_files[id]
     IN /\ key.ok
        /\ decryptData(row.encrypted_data, row.iv, row.auth_tag, key.val).ok

\* C7: the encrypted_files row and the key_shares rows stored for a file do
\* not suffice to compute the file's key.
KeyNotDerivableFromStore ==
  \A id \in DOMAIN encrypted_files : ~BackendDecrypts(id)

\* contents a file of the same name, type and size could have instead
OtherContents == {<<137, 4, 2, 99>>, <<104, 106>>}

\* C8: nothing stored in the clear for an upload depends on the content of
\* the file: a file of the same name, type and size with another content
\* leaves the same thumbnail_data.
StoredClearIndependentOfContent ==
  \A id \in DOMAIN encrypted_files :
    \A content \in Contents \cup OtherContents :
      LET row == encrypted_files[id]
          other == File(row.file_name, row.file_type, content)
          thumbnail == generateThumbnail(other)
      IN (other.size = row.file_size /\ thumbnail.resolved)
           => thumbnail.val = row.thumbnail_data

(***************************************************************************)
(* Properties of share links.                                              *)
(***************************************************************************)
\* C11: once incrementViewCount has completed on a one-time-view link, every
\* validateShareAccess call on that link returns false, whatever the
\* password.
OneTimeViewConsumed ==
  \A c \in Clients :
    (viewer[c].pc = "validated" /\ viewer[c].afterView /\ viewer[c].link.one_time_view)
      => ~viewer[c].ok

\* C12: of the access requests on a one-time-view link, at most one passes
\* validateShareAccess and has its view recorded, however the requests
\* interleave.
AtMostOneViewGranted ==
  faults = 0 =>
    \A id \in DOMAIN share_links :
      share_links[id].one_time_view => viewed[id] <= 1

\* the access rule: not expired, views left, password right
AccessRule(link, password, date) ==
  /\ link.expires_at = Nil \/ ~(link.expires_at[1] < date)
  /\ link.max_views = Nil \/ link.view_count < link.max_views[1]
  /\ link.password_hash = Nil
     \/ (password # Nil /\ hashPassword(password[1]) = link.password_hash[1])

\* C13: validateShareAccess returns true exactly when the link is not
\* expired, has views left and, if it has a password, the password given is
\* the right one.
ValidateFollowsAccessRule ==
  \A c \in Clients :
    viewer[c].pc = "validated" =>
      (viewer[c].ok <=> AccessRule(viewer[c].link, viewer[c].password, viewer[c].at))

ValidateFollowsAccessRuleWitness ==
  \E c \in Clients :
    /\ viewer[c].pc = "validated"
    /\ viewer[c].link.expires_at # Nil
    /\ viewer[c].link.expires_at[1] < viewer[c].at
    /\ viewer[c].link.password_hash # Nil
    /\ viewer[c].password = Some(<<112>>)
    /\ ~viewer[c].ok

\* C14: no step takes is_active of a share link from false to true.
IsActiveNeverReturns ==
  [][\A id \in DOMAIN share_links \cap DOMAIN share_links' :
       share_links'[id].is_active => share_links[id].is_active]_vars

IsActiveNeverReturnsWitness ==
  \E id \in DOMAIN share_links :
    /\ ~share_links[id].is_active
    /\ viewed[id] > 0
    /\ \E c \in Clients : viewer[c].pc = "validated" /\ viewer[c].link.id = id

\* C17: once the Upload page has finished a batch, the key of every file of
\* the batch that was stored is the key the page displays.
UploadedKeysShown ==
  (uploadPage # PageOff /\ uploadPage.pc = "shown") =>
    \A n \in uploadPage.storedKeys : uploadPage.encryptionKey = exportKey(KeyOf[n])

\* C18: a Rotate Key of the Files page on an active file, with the store
\* answering every call, ends with the file re-encrypted: the call is done
\* and the row's version is one more than the version it read.
RotateKeyRotates ==
  \A c \in Clients :
    (/\ regen[c].origin = "page"
     /\ regen[c].pc \in {"done", "failed"}
     /\ regen[c].file # NoFile
     /\ ~regen[c].file.is_deleted
     /\ faults = 0) =>
      (/\ regen[c].pc = "done"
       /\ Stored(encrypted_files, regen[c].fileId).version = regen[c].file.version + 1)

\* C19: a workflow call one of whose steps failed has called log() with
\* status 'failed' and has thrown the error to its caller; a call that threw
\* has logged 'failed'.
FailuresLoggedAndRethrown ==
  /\ audit.failed => audit.thrown /\ audit.loggedFailed
  /\ audit.thrown => audit.loggedFailed

\* C20: a workflow call throws exactly when a step of its own threw: a log
\* insert that fails changes nothing of that.
LogFailureNeverFails == audit.thrown <=> audit.ownError

LogFailureNeverFailsWitness ==
  /\ audit.op \in {"file_upload", "file_decrypt", "key_regen", "share_create"}
  /\ audit.logFault
  /\ ~audit.thrown

\* C21: in every state of a file row, is_deleted is true exactly when
\* deleted_at is set.
DeletedIffDeletedAt ==
  \A id \in DOMAIN encrypted_files :
    encrypted_files[id].is_deleted <=> encrypted_files[id].deleted_at # Null

\* a soft-deleted file whose key has been rotated since it was uploaded
DeletedIffDeletedAtWitness ==
  \E id \in DOMAIN encrypted_files :
    /\ encrypted_files[id].is_deleted
    /\ encrypted_files[id].deleted_at = Timestamp
    /\ encrypted_files[id].version > 1

\* C22: generateThumbnail completes for every file, so no upload call of the
\* Upload page is left waiting for its thumbnail for ever.
ThumbnailAlwaysResolves ==
  uploadPage # PageOff => uploadPage.pc # "awaitingThumbnail"

\* C23: while the store answers every call, a signIn made less than 15
\* minutes after the account's fifth failed signIn in a row is rejected
\* without authentication being attempted, and after a signIn that succeeded
\* login_attempts is 0 and locked_until is cleared.
LockoutAfterFiveFailures ==
  (auth # AuthOff /\ faults = 0) =>
    /\ auth.due => auth.outcome = "locked" /\ ~auth.attempted
    /\ auth.outcome = "ok" => auth.login_attempts = 0 /\ auth.locked_until = Nil

\* C24: every view of a note from the Notes page decrypts it, the notes
\* being those created (or updated) through the page, in this visit of the
\* page or an earlier one.
NotesStayViewable ==
  (notesPage # NotesPageOff /\ audit.op = "note_decrypt") => ~audit.failed

\* C25: in every state of a share link, a one-time link that has been viewed
\* is inactive, and so is a link whose view_count has reached its max_views.
ViewCountAndActiveAgree ==
  \A id \in DOMAIN share_links :
    LET link == share_links[id]
    IN /\ (link.one_time_view /\ link.view_count >= 1) => ~link.is_active
       /\ (TruthyNumber(link.max_views) /\ link.view_count >= link.max_views[1])
            => ~link.is_active

\* C26: while the store answers every call, in every state each key share
\* stored for a file was split from a key that decrypts the file's stored
\* ciphertext: shares of a superseded key never stand next to the new
\* ciphertext.
NoStaleShares ==
  faults = 0 =>
    \A id \in DOMAIN encrypted_files :
      \A r \in SharesOf(id) :
        \E n \in KeyIds :
          /\ \E i \in 1..3 : r = ShareRow(id, SharesTable[n][i])
          /\ Decrypted(encrypted_files[id].encrypted_data, encrypted_files[id].iv,
                       encrypted_files[id].auth_tag, n).ok

\* C27: a file row is removed only while it is soft-deleted, and a key
\* rotation goes on to re-encrypt only a file that is not soft-deleted.
LifecycleStateMachine ==
  [][/\ \A id \in DOMAIN encrypted_files \ DOMAIN encrypted_files' :
          encrypted_files[id].is_deleted
     /\ \A c \in Clients :
          (regen[c].pc # "update" /\ regen'[c].pc = "update")
            => ~regen'[c].file.is_deleted]_vars

\* the key the stored ciphertext of file id was made with
KeyOfRow(id) ==
  CHOOSE n \in KeyIds :
    Encrypted(plain[id], n) =
      [encryptedData |-> encrypted_files[id].encrypted_data,
       iv |-> encrypted_files[id].iv,
       authTag |-> encrypted_files[id].auth_tag]

\* C28: a regenerateFileKey call on a stored file with an old key that is
\* not the key of the stored ciphertext fails at its decryption: no new key
\* is drawn, and the file row (ciphertext, IV, auth tag, version,
\* key_rotation_date) and the key shares are left as they were.
WrongOldKeyChangesNothing ==
  [][\A c \in Clients :
       (/\ Returned(c)
        /\ regen'[c] # regen[c]
        /\ regen'[c].fileId \in DOMAIN encrypted_files
        /\ regen'[c].oldKey # KeyOfRow(regen'[c].fileId))
         => /\ regen'[c].pc = "failed"
            /\ regen'[c].n = 0
            /\ draws' = draws
            /\ encrypted_files' = encrypted_files
            /\ key_shares' = key_shares]_vars

\* a call with a wrong old key has failed on a file that has been rotated
\* before and has its three key shares
WrongOldKeyChangesNothingWitness ==
  \E c \in Clients :
    /\ regen[c].pc = "failed"
    /\ regen[c].fileId \in DOMAIN encrypted_files
    /\ regen[c].oldKey # KeyOfRow(regen[c].fileId)
    /\ regen[c].oldKey # ForeignKey
    /\ encrypted_files[regen[c].fileId].version = 2
    /\ Cardinality(SharesOf(regen[c].fileId)) = 3
    /\ faults = 0

ShareBuffer(i) == base64ToArrayBuffer(ss.shares[i].encryptedShare)

\* C29: splitSecretShamir(s) returns three shares typed user_share,
\* recovery_share, device_share in that order, each as long as the encoded
\* secret, and the byte-wise XOR of the three is the encoded secret.
SplitSharesXorToSecret ==
  ss.pc \in {"split", "reconstructed"} =>
    /\ Len(ss.shares) = 3
    /\ [i \in 1..3 |-> ss.shares[i].shareType]
         = <<"user_share", "recovery_share", "device_share">>
    /\ \A i \in 1..3 :
         ShareBuffer(i).ok /\ Len(ShareBuffer(i).val) = Len(TextEncode(ss.secret))
    /\ XorBytes(XorBytes(ShareBuffer(1).val, ShareBuffer(2).val), ShareBuffer(3).val)
         = TextEncode(ss.secret)

\* the split of a secret whose encoding is longer than its text
SplitSharesXorToSecretWitness ==
  /\ ss.pc = "split"
  /\ Len(TextEncode(ss.secret)) > Len(ss.secret)
  /\ ss.seed1 # ss.seed2
  /\ Len(ss.shares) = 3

\* C30: an uploadEncryptedFile call that stores its file record (and so
\* returns normally, having logged 'file_upload' success) leaves exactly three
\* key shares for the new file in the store, one of each share type.
UploadStoresThreeShares ==
  [][nextFileId' # nextFileId =>
       /\ nextFileId \in DOMAIN encrypted_files'
       /\ {r.share_type : r \in {x \in key_shares' : x.file_id = nextFileId}}
            = {"user_share", "recovery_share", "device_share"}
       /\ Cardinality({x \in key_shares' : x.file_id = nextFileId}) = 3]_vars
=============================================================================
